---- MODULE Spec2Model ----
(***************************************************************************)
(* A model of pulse (wellsgz/pulse): the in-memory ring buffer of          *)
(* internal/storage/memory.go, the collector of internal/collector, the    *)
(* client and server of internal/ipc and the probes of internal/probe.     *)
(*                                                                         *)
(* float64 latencies are modelled by exact rationals [n, d] (d > 0, in     *)
(* lowest terms); a loss is the sentinel -1 as in the code.                *)
(***************************************************************************)
EXTENDS Integers, Sequences, FiniteSets, TLC

VARIABLES
    bufferSize,   \* MemoryBuffer.bufferSize
    targets,      \* MemoryBuffer.targets: name -> targetBuffer (or NoBuffer)
    written,      \* history: name -> every sample ever written, in call order
    ret,          \* the last call on the MemoryBuffer and what it returned
    archive,      \* history: name -> samples the persistent storage accepted
    hasStorage,   \* Collector.storage != nil
    now,          \* the clock read by time.Now()
    ctxDone,      \* Collector.ctx is cancelled
    wg,           \* Collector.wg: its counter
    driver,       \* where Start and the goroutine it spawns are
    rounds,       \* the number of runAllProbes calls so far
    probes,       \* <<round, target>> -> the goroutine running runProbe
    subscribers,  \* Collector.subscribers
    chans,        \* the channels made by Subscribe: buffer and closed flag
    readers,      \* the goroutines holding Collector.subMu for reading
    stop,         \* where the caller of Stop is
    broadcasts,   \* history: name -> the results handed to broadcast, in call order
    panic,        \* the runtime panic raised, if any
    pending,      \* ipc.Client.pending: the request ids that have a slot in the map
    respCh,       \* request id -> the buffer of the respCh made for that request
    callers,      \* the goroutines calling the client's request helpers
    outbox,       \* the requests the client has written and the server has not answered
    inbox,        \* the lines the server has written and readLoop has not read
    resultCh,     \* ipc.Client.resultCh: its buffer
    nextId,       \* the number of request ids generated so far
    pushes,       \* the number of probe_result lines the server has pushed
    link,         \* ipc.Client: its connection, readLoop, Close and the reader of Results()
    server,       \* ipc.Server: closed, ctx, listener, wg, the socket file, collector
    srvClients,   \* ipc.Server.clients
    conns,        \* connection -> its state at the server and the client's end of it
    events,       \* history: connection -> the lines read and the Encode calls made
    acceptLoop,   \* the goroutine running acceptLoop
    forwarder,    \* the goroutine running broadcastResults
    feed,         \* results waiting in the channel the collector feeds
    srvStop,      \* where the caller of Server.Stop is
    icmpProbe,    \* probe.ICMPProbe: Pings and privileged
    probeRet,     \* the last call into internal/probe: its inputs and what it returned
    cfgRet,       \* the last call into internal/config: its inputs and what it returned
    rrdRet,       \* the last call into the archive code of internal/storage
    rrdStorage,   \* storage.RRDStorage: step, heartbeat, xff, aggregation, rras
    hub,          \* api.Hub: clients, broadcast, done, and where Run is
    wsClients,    \* api.Client by connection: send, targets, allTargets, its pumps
    histRet,      \* the get_history request in flight: what was fetched, sent, returned
    conc          \* concurrent callers of Write and GetStats: the buffers made, the locks

memVars == <<bufferSize, targets, written, ret>>

collVars == <<archive, hasStorage, now, ctxDone, wg, driver, rounds, probes,
              subscribers, chans, readers, stop, broadcasts, panic>>

cliVars == <<pending, respCh, callers, outbox, inbox, resultCh, nextId, pushes, link>>

srvVars == <<server, srvClients, conns, events, acceptLoop, forwarder, feed, srvStop>>

prbVars == <<icmpProbe, probeRet>>

\* what the ring buffer and the collector leave alone
cfgVars == <<cfgRet>>

rrdVars == <<rrdRet, rrdStorage>>

hubVars == <<hub, wsClients>>

histVars == <<histRet>>

concVars == <<conc>>

\* the packages that are driven by direct calls only, and the WebSocket hub
extVars == <<cfgVars, rrdVars, hubVars, histVars, concVars>>

restVars == <<cliVars, srvVars, prbVars, extVars>>

coreVars == <<memVars, collVars, cliVars, srvVars, prbVars>>

vars == <<bufferSize, targets, written, ret, archive, hasStorage, now, ctxDone, wg,
          driver, rounds, probes, subscribers, chans, readers, stop, broadcasts,
          panic, pending, respCh, callers, outbox, inbox, resultCh, nextId, pushes, link,
          server, srvClients, conns, events, acceptLoop, forwarder, feed, srvStop,
          icmpProbe, probeRet, cfgRet, rrdRet,
          rrdStorage, hub, wsClients, histRet, conc>>

\* what the calls into internal/config, the calls into the archive code and the
\* WebSocket hub leave alone
nonCfgVars == <<coreVars, rrdVars, hubVars, histVars, concVars>>
nonRrdVars == <<coreVars, cfgVars, hubVars, histVars, concVars>>
nonHubVars == <<coreVars, cfgVars, rrdVars, histVars, concVars>>
nonHistVars == <<coreVars, cfgVars, rrdVars, hubVars, concVars>>
nonConcVars == <<collVars, cliVars, srvVars, prbVars, cfgVars, rrdVars, hubVars, histVars>>
nonCliVars == <<memVars, collVars, srvVars, prbVars, extVars>>

-----------------------------------------------------------------------------
(* Bounds of the model *)

MaxBufferSize == 3           \* capacities 1..MaxBufferSize are explored
MaxRounds == 2               \* rounds the collector runs, the initial one included
SubscriberBuffer == 1        \* capacity of a subscriber channel (100 in Subscribe)
MaxRequests == 2             \* requests the client's callers make in all
MaxPushes == 1               \* probe_result lines the server pushes to the client
ResultBuffer == 1            \* capacity of the client's resultCh (100 in Connect)
ClockStep == 5               \* seconds between two looks at the timers
MaxResults == 1              \* results the collector feeds to the server

Names == {"a", "b"}          \* target names used in calls
WriteNames == {"a"}          \* names written to by direct Write calls
Latencies == {-1, 1, 3}      \* latencyMs inputs: -1 is a loss
MaxWritesFor(bs) == 2 * bs + 1
CollectorBufferSizes == {1, 2}   \* ring capacities the collector is built with
FaultyArchives == {"a"}      \* targets whose storage writes return an error
DownHosts == {"b"}           \* targets whose bursts get no reply (LatencyMs -1)
UpLatencyMs == 2             \* LatencyMs of a burst that gets replies
ChanOrder == <<"c1", "c2">>  \* the channels Subscribe makes, in this order
Chans == {ChanOrder[i] : i \in 1 .. Len(ChanOrder)}

\* the largest burst size and the largest number of packets of a burst
MaxPings == 3

\* the round-trip times a reply can take, in nanoseconds
RttValues == {0, 1500, 2000, 2501}

\* the longest list of targets of a configuration
MaxTargets == 2

\* the longest retention string that is tried character by character
MaxRetentionLen == 5

\* the largest number of archives of a retention string put together from
\* whole archives
MaxArchives == 2

\* the longest target name that is tried character by character
MaxNameLen == 3

\* the significant bits the model keeps of a float64 (the build keeps 53)
MantissaBits == 8

\* the longest sample list percentile is called with
MaxSorted == 3

\* the WebSocket connections, the room of a client's send channel (256 in the
\* source), the client messages read and the probe results broadcast
MaxWsClients == 2
WsSendBuffer == 1
MaxClientMessages == 2
MaxProbeResults == 2

\* the most datapoints of one history response
MaxPoints == 2

MaxCloseCalls == 2           \* calls of Client.Close

MaxWriters == 3              \* goroutines that call Write concurrently

-----------------------------------------------------------------------------
(* Rationals standing for float64 *)

RECURSIVE Gcd(_, _)
Gcd(a, b) == IF b = 0 THEN a ELSE Gcd(b, a % b)

Abs(x) == IF x < 0 THEN -x ELSE x

Rat(n, d) ==
    LET g == Gcd(Abs(n), d)
    IN  [n |-> IF n < 0 THEN -(Abs(n) \div g) ELSE n \div g, d |-> d \div g]

RatInt(i) == [n |-> i, d |-> 1]
RatAdd(x, y) == Rat(x.n * y.d + y.n * x.d, x.d * y.d)
RatSub(x, y) == Rat(x.n * y.d - y.n * x.d, x.d * y.d)
RatMul(x, y) == Rat(x.n * y.n, x.d * y.d)
RatDivInt(x, k) == Rat(x.n, x.d * k)
RatLess(x, y) == x.n * y.d < y.n * x.d
RatFloor(x) == x.n \div x.d
RatCeil(x) == -((-x.n) \div x.d)

-----------------------------------------------------------------------------
(* internal/storage/memory.go *)

NoBuffer == [absent |-> TRUE]

ZeroSample == [timestamp |-> 0, latencyMs |-> 0]

\* the targetBuffer literal of Write
NewTargetBuffer(bs) ==
    [samples |-> [i \in 0 .. bs - 1 |-> ZeroSample],
     head |-> 0, count |-> 0, full |-> FALSE, lastUpdate |-> 0,
     firstSuccessIdx |-> -1, hasFirstSuccess |-> FALSE]

\* the loop of Write that looks for the next successful ping from head on
RECURSIVE ScanFirstSuccess(_, _, _, _)
ScanFirstSuccess(samples, head, bs, i) ==
    IF i >= bs THEN [firstSuccessIdx |-> -1, hasFirstSuccess |-> FALSE]
    ELSE LET idx == (head + i) % bs
         IN  IF samples[idx].latencyMs >= 0
             THEN [firstSuccessIdx |-> idx, hasFirstSuccess |-> TRUE]
             ELSE ScanFirstSuccess(samples, head, bs, i + 1)

\* a variant of NextCount that does not saturate at the capacity
NextCountUnbounded(count, bs) == count + 1

\* Write: "if tb.count < m.bufferSize { tb.count++ }"
NextCount(count, bs) == IF count < bs THEN count + 1 ELSE count

\* a variant of NextFull that sets the flag by the write that fills the buffer
NextFullAtCapacity(full, count, bs) == full \/ count + 1 >= bs

\* Write: "tb.full = true" in the else branch of "if tb.count < m.bufferSize"
NextFull(full, count, bs) == IF count < bs THEN full ELSE TRUE

\* Write, from tb.mu.Lock() to its return: the update of one targetBuffer
TargetWrite(tb, bs, timestamp, latencyMs) ==
    LET currentIdx == tb.head
        samples1 == [tb.samples EXCEPT ![tb.head] =
                        [timestamp |-> timestamp, latencyMs |-> latencyMs]]
        first == ~tb.hasFirstSuccess /\ latencyMs >= 0
        fsi1 == IF first THEN currentIdx ELSE tb.firstSuccessIdx
        has1 == IF first THEN TRUE ELSE tb.hasFirstSuccess
        head1 == (tb.head + 1) % bs
        grows == tb.count < bs
        rescan == ~grows /\ has1 /\ head1 = fsi1
        found == ScanFirstSuccess(samples1, head1, bs, 0)
    IN  [samples |-> samples1,
         head |-> head1,
         count |-> NextCount(tb.count, bs),
         full |-> NextFull(tb.full, tb.count, bs),
         lastUpdate |-> timestamp,
         firstSuccessIdx |-> IF rescan THEN found.firstSuccessIdx ELSE fsi1,
         hasFirstSuccess |-> IF rescan THEN found.hasFirstSuccess ELSE has1]

\* the lookup and double-checked insertion at the top of Write
LookupOrCreate(tgts, targetName, bs) ==
    IF tgts[targetName] = NoBuffer THEN NewTargetBuffer(bs) ELSE tgts[targetName]

\* MemoryBuffer.Write as a function of the map
MemoryWrite(tgts, bs, targetName, timestamp, latencyMs) ==
    [tgts EXCEPT ![targetName] =
        TargetWrite(LookupOrCreate(tgts, targetName, bs), bs, timestamp, latencyMs)]

RECURSIVE Insert(_, _)
Insert(x, sorted) ==
    IF sorted = <<>> THEN <<x>>
    ELSE IF x <= Head(sorted) THEN <<x>> \o sorted
    ELSE <<Head(sorted)>> \o Insert(x, Tail(sorted))

\* sort.Float64s
RECURSIVE SortFloat64s(_)
SortFloat64s(s) == IF s = <<>> THEN <<>> ELSE Insert(Head(s), SortFloat64s(Tail(s)))

RECURSIVE SumSeq(_)
SumSeq(s) == IF s = <<>> THEN 0 ELSE Head(s) + SumSeq(Tail(s))

\* percentile(sorted, p): linear interpolation between the neighbours of idx
percentile(sorted, p) ==
    IF Len(sorted) = 0 THEN RatInt(0)
    ELSE IF Len(sorted) = 1 THEN RatInt(sorted[1])
    ELSE LET idx == Rat(p * (Len(sorted) - 1), 100)
             lower == RatFloor(idx)
             upper == RatCeil(idx)
             weight == RatSub(idx, RatInt(lower))
         IN  IF lower = upper THEN RatInt(sorted[lower + 1])
             ELSE RatAdd(RatMul(RatInt(sorted[lower + 1]), RatSub(RatInt(1), weight)),
                         RatMul(RatInt(sorted[upper + 1]), weight))

\* mean(values)
mean(values) ==
    IF Len(values) = 0 THEN RatInt(0) ELSE Rat(SumSeq(values), Len(values))

RECURSIVE SumSquares(_, _)
SumSquares(values, avg) ==
    IF values = <<>> THEN RatInt(0)
    ELSE LET diff == RatSub(RatInt(Head(values)), avg)
         IN  RatAdd(RatMul(diff, diff), SumSquares(Tail(values), avg))

\* stddev(values, avg) without its final square root: sumSquares / len(values)
stddevSquared(values, avg) ==
    IF Len(values) < 2 THEN RatInt(0)
    ELSE RatDivInt(SumSquares(values, avg), Len(values))

\* the Stats literal at the top of calculateStats
EmptyStats(targetName, lastUpdate) ==
    [Target |-> targetName, LastUpdate |-> lastUpdate, SampleCount |-> 0,
     LossPct |-> RatInt(0), LastMs |-> RatInt(0), MinMs |-> RatInt(0),
     MaxMs |-> RatInt(0), AvgMs |-> RatInt(0), MedianMs |-> RatInt(0),
     P95Ms |-> RatInt(0), StdDevSq |-> RatInt(0)]

\* the collecting loop of calculateStats: the non-loss values of the window
RECURSIVE CollectValues(_, _, _, _, _)
CollectValues(samples, startIdx, sampleCount, bs, i) ==
    IF i >= sampleCount THEN <<>>
    ELSE LET latency == samples[(startIdx + i) % bs].latencyMs
         IN  (IF latency < 0 THEN <<>> ELSE <<latency>>)
             \o CollectValues(samples, startIdx, sampleCount, bs, i + 1)

\* a variant of SampleCountOf that forgets the wrapped part of the window
SampleCountOfNoWrap(tb, bs) ==
    IF tb.full
    THEN IF tb.head > tb.firstSuccessIdx
         THEN tb.head - tb.firstSuccessIdx
         ELSE bs - tb.firstSuccessIdx
    ELSE tb.count - tb.firstSuccessIdx

\* calculateStats: how many samples to consider
SampleCountOf(tb, bs) ==
    IF tb.full
    THEN IF tb.head > tb.firstSuccessIdx
         THEN tb.head - tb.firstSuccessIdx
         ELSE bs - tb.firstSuccessIdx + tb.head
    ELSE tb.count - tb.firstSuccessIdx

calculateStats(targetName, tb, bs) ==
    LET stats == EmptyStats(targetName, tb.lastUpdate)
        startIdx == tb.firstSuccessIdx
        sampleCount == SampleCountOf(tb, bs)
        values == CollectValues(tb.samples, startIdx, sampleCount, bs, 0)
        lossCount == sampleCount - Len(values)
        counted == [stats EXCEPT !.SampleCount = sampleCount,
                                 !.LossPct = Rat(lossCount * 100, sampleCount)]
        lastIdx == IF tb.head - 1 < 0 THEN bs - 1 ELSE tb.head - 1
        sorted == SortFloat64s(values)
        avg == mean(values)
    IN  IF tb.count = 0 THEN stats
        ELSE IF ~tb.hasFirstSuccess THEN stats
        ELSE IF sampleCount <= 0 THEN stats
        ELSE IF Len(values) = 0 THEN [counted EXCEPT !.LastMs = RatInt(-1)]
        ELSE [counted EXCEPT !.LastMs = RatInt(tb.samples[lastIdx].latencyMs),
                             !.MinMs = RatInt(sorted[1]),
                             !.MaxMs = RatInt(sorted[Len(sorted)]),
                             !.MedianMs = percentile(sorted, 50),
                             !.P95Ms = percentile(sorted, 95),
                             !.AvgMs = avg,
                             !.StdDevSq = stddevSquared(values, avg)]

\* MemoryBuffer.GetStats as a function of the map
MemoryGetStats(tgts, bs, targetName) ==
    IF tgts[targetName] = NoBuffer
    THEN EmptyStats(targetName, 0)
    ELSE calculateStats(targetName, tgts[targetName], bs)

\* a variant of MemoryGetHistory that starts at the oldest sample
MemoryGetHistoryFromOldest(tgts, bs, targetName, count) ==
    IF tgts[targetName] = NoBuffer THEN <<>>
    ELSE LET tb == tgts[targetName]
             cnt == IF count <= 0 \/ count > tb.count THEN tb.count ELSE count
             start == IF tb.head - tb.count < 0 THEN tb.head - tb.count + bs
                      ELSE tb.head - tb.count
         IN  [i \in 1 .. cnt |-> tb.samples[(start + i - 1) % bs].latencyMs]

\* MemoryBuffer.GetHistory as a function of the map
MemoryGetHistory(tgts, bs, targetName, count) ==
    IF tgts[targetName] = NoBuffer THEN <<>>
    ELSE LET tb == tgts[targetName]
             cnt == IF count <= 0 \/ count > tb.count THEN tb.count ELSE count
             start == IF tb.head - cnt < 0 THEN tb.head - cnt + bs ELSE tb.head - cnt
         IN  [i \in 1 .. cnt |-> tb.samples[(start + i - 1) % bs].latencyMs]

-----------------------------------------------------------------------------
(* internal/ipc: the client *)

\* the request ids generateRequestID returns; 0 stands for the empty id
RequestIds == 1 .. MaxRequests

CallerNames == {"k1", "k2"}

\* the request helper each caller uses: GetStats or GetHistory
Kinds == {"get_stats", "get_history"}
KindOf(k) == IF k = "k1" THEN "get_stats" ELSE "get_history"

IdleCaller == [pc |-> "idle", id |-> 0, kind |-> "none", waited |-> 0,
               outcome |-> [result |-> "none"]]

\* the connection is open, readLoop runs, resultCh and ctx are open, Close has not
\* been called, the reader of Results() is receiving; cut is history: the ids of
\* the requests that had no response on its way when the connection closed
NewLink == [conn |-> "open", reader |-> "running", resultClosed |-> 0, ctxClosed |-> 0,
            closed |-> FALSE, closeCalls |-> 0, waiting |-> 0, returned |-> 0,
            consumer |-> "receiving", cut |-> {}, panic |-> "none"]

\* Connect: an empty pending map, an empty resultCh, readLoop started
Connect ==
    /\ pending = {}
    /\ respCh = [id \in RequestIds |-> <<>>]
    /\ callers = [k \in CallerNames |-> IdleCaller]
    /\ outbox = {}
    /\ inbox = {}
    /\ resultCh = <<>>
    /\ nextId = 0
    /\ pushes = 0
    /\ link = NewLink

-----------------------------------------------------------------------------
(* internal/ipc: the server *)

Conns == {"n1", "n2"}

NoLine == [valid |-> FALSE, id |-> 0, type |-> "none"]

NewConn == [state |-> "none", closed |-> FALSE, subscribed |-> FALSE, lines |-> <<>>,
            sent |-> 0, stalled |-> FALSE, handler |-> "none", req |-> NoLine,
            reply |-> [ID |-> 0, Type |-> "none"]]

\* NewServer, SetCollector and Start: the listener is open, broadcastResults (with
\* a collector) and acceptLoop are running
StartServer(withCollector) ==
    /\ server = [closed |-> FALSE, ctx |-> "open", listener |-> "open",
                 wg |-> IF withCollector THEN 2 ELSE 1, socketFile |-> TRUE,
                 collector |-> withCollector]
    /\ srvClients = {}
    /\ conns = [n \in Conns |-> NewConn]
    /\ events = [n \in Conns |-> <<>>]
    /\ acceptLoop = [pc |-> "accept", conn |-> "none"]
    /\ forwarder = [pc |-> IF withCollector THEN "select" ELSE "none", todo |-> {}]
    /\ feed = [waiting |-> 0, total |-> 0]
    /\ srvStop = "idle"

-----------------------------------------------------------------------------
(* internal/probe: ICMPProbe *)

\* no call into the package has been made yet
NoCall == [op |-> "none"]

NewICMPProbe(pings) ==
    /\ icmpProbe = [Pings |-> IF pings < 1 THEN 1 ELSE pings, privileged |-> TRUE]
    /\ probeRet = NoCall

-----------------------------------------------------------------------------
(* internal/collector: Collector *)

ProbeIds == (1 .. MaxRounds) \X Names

NoResult == [none |-> TRUE]

IdleProbe == [pc |-> "idle", result |-> NoResult, err |-> FALSE, todo |-> {}]

\* received is history: what the subscriber has taken off the channel, in order
NewChan == [made |-> FALSE, closed |-> FALSE, buf |-> <<>>, received |-> <<>>]

\* NewCollector with a storage: one probe per configured target, no subscriber,
\* a live context
NewCollector(store) ==
    /\ archive = [t \in Names |-> <<>>]
    /\ hasStorage = store
    /\ now = 0
    /\ ctxDone = FALSE
    /\ wg = 0
    /\ driver = "new"
    /\ rounds = 0
    /\ probes = [g \in ProbeIds |-> IdleProbe]
    /\ subscribers = {}
    /\ chans = [c \in Chans |-> NewChan]
    /\ readers = {}
    /\ stop = "idle"
    /\ broadcasts = [t \in Names |-> <<>>]
    /\ panic = "none"

-----------------------------------------------------------------------------
(* internal/config and the archive code of internal/storage *)

\* no call into internal/config has been made yet
NoConfigCall == cfgRet = [op |-> "none"]

\* no call into the archive code has been made yet
NoStorage == [ok |-> FALSE]
NoStorageCall == rrdRet = [op |-> "none"] /\ rrdStorage = NoStorage

\* no Hub has been made yet
NoHub == hub = [made |-> FALSE] /\ wsClients = <<>>

\* no get_history request is in flight
NoHistoryCall == histRet = [stage |-> "none"]

\* no goroutine is in Write or GetStats
NoWriters == conc = [started |-> FALSE]

NoDirectCalls == NoConfigCall /\ NoStorageCall /\ NoHub /\ NoHistoryCall /\ NoWriters

-----------------------------------------------------------------------------
(* The ring buffer driven by direct calls *)

\* NewMemoryBuffer(bufferSize) for a positive bufferSize
InitMemory ==
    /\ bufferSize \in 1 .. MaxBufferSize
    /\ targets = [t \in Names |-> NoBuffer]
    /\ written = [t \in Names |-> <<>>]
    /\ ret = [op |-> "NewMemoryBuffer"]

\* m.Write(targetName, timestamp, latencyMs)
Write(targetName, timestamp, latencyMs) ==
    /\ targets' = MemoryWrite(targets, bufferSize, targetName, timestamp, latencyMs)
    /\ written' = [written EXCEPT ![targetName] =
                      Append(@, [timestamp |-> timestamp, latencyMs |-> latencyMs])]
    /\ ret' = [op |-> "Write", target |-> targetName]
    /\ UNCHANGED bufferSize

\* m.GetStats(targetName)
GetStats(targetName) ==
    /\ ret' = [op |-> "GetStats", target |-> targetName,
               stats |-> MemoryGetStats(targets, bufferSize, targetName)]
    /\ UNCHANGED <<bufferSize, targets, written>>

\* m.GetHistory(targetName, count)
GetHistory(targetName, count) ==
    /\ ret' = [op |-> "GetHistory", target |-> targetName, count |-> count,
               history |-> MemoryGetHistory(targets, bufferSize, targetName, count)]
    /\ UNCHANGED <<bufferSize, targets, written>>

CallWrite ==
    \E t \in WriteNames, l \in Latencies :
        /\ Len(written[t]) < MaxWritesFor(bufferSize)
        /\ Write(t, Len(written[t]) + 1, l)

CallGetStats == \E t \in Names : GetStats(t)

CallGetHistory == \E t \in Names, n \in -1 .. MaxBufferSize + 1 : GetHistory(t, n)

NextBuf ==
    \/ CallWrite /\ UNCHANGED <<collVars, restVars>>
    \/ CallGetStats /\ UNCHANGED <<collVars, restVars>>
    \/ CallGetHistory /\ UNCHANGED <<collVars, restVars>>

InitBuf ==
    InitMemory /\ NewCollector(TRUE) /\ Connect /\ StartServer(TRUE) /\ NewICMPProbe(1) /\ NoDirectCalls

SpecBuf == InitBuf /\ [][NextBuf]_vars

-----------------------------------------------------------------------------
(* The ring buffer under concurrent calls *)

WriterNames == 1 .. MaxWriters

\* the target all the goroutines write to
Unseen == "a"

\* conc.heap holds every targetBuffer made, in the order made; conc.mapped is the
\* one m.targets[Unseen] points to (0: no entry); a heap entry carries the holder of
\* its tb.mu; obs is what the last GetStats returned and what had been written
\* when it read the buffer
StartWriters(lats) ==
    [started |-> TRUE, heap |-> <<>>, mapped |-> 0,
     writers |-> [w \in WriterNames |->
                     [pc |-> "lookup", tb |-> 0, latencyMs |-> lats[w]]],
     reader |-> [pc |-> "idle", tb |-> 0],
     obs |-> [op |-> "none"]]

\* what m.targets[Unseen] is, given the heap and the map entry
MapView(heap, mapped) == IF mapped = 0 THEN NoBuffer ELSE heap[mapped].buf

\* Write: m.mu.RLock(); tb, exists := m.targets[targetName]; m.mu.RUnlock()
WriteLookup(w) ==
    /\ conc.writers[w].pc = "lookup"
    /\ conc' = [conc EXCEPT !.writers[w].tb = conc.mapped,
                            !.writers[w].pc = IF conc.mapped = 0 THEN "insert" ELSE "lock"]
    /\ UNCHANGED <<targets, written>>

\* a variant of StillAbsent that does not look again
StillAbsentUnchecked(mapped) == TRUE

\* Write: if tb, exists = m.targets[targetName]; !exists, under m.mu.Lock()
StillAbsent(mapped) == mapped = 0

\* Write: m.mu.Lock(), the second look, the new targetBuffer, m.mu.Unlock()
WriteInsert(w) ==
    /\ conc.writers[w].pc = "insert"
    /\ IF StillAbsent(conc.mapped)
       THEN conc' = [conc EXCEPT
                        !.heap = Append(@, [buf |-> NewTargetBuffer(bufferSize),
                                            holder |-> 0]),
                        !.mapped = Len(conc.heap) + 1,
                        !.writers[w].tb = Len(conc.heap) + 1,
                        !.writers[w].pc = "lock"]
       ELSE conc' = [conc EXCEPT !.writers[w].tb = conc.mapped,
                                 !.writers[w].pc = "lock"]
    /\ targets' = [targets EXCEPT ![Unseen] = MapView(conc'.heap, conc'.mapped)]
    /\ UNCHANGED written

\* Write: tb.mu.Lock()
WriteLock(w) ==
    /\ conc.writers[w].pc = "lock"
    /\ conc.heap[conc.writers[w].tb].holder = 0
    /\ conc' = [conc EXCEPT !.heap[conc.writers[w].tb].holder = w,
                            !.writers[w].pc = "store"]
    /\ UNCHANGED <<targets, written>>

\* Write: tb.samples[tb.head] = sample{...}
WriteStore(w) ==
    /\ conc.writers[w].pc = "store"
    /\ LET tb == conc.heap[conc.writers[w].tb].buf
       IN  conc' = [conc EXCEPT
                       !.heap[conc.writers[w].tb].buf.samples[tb.head] =
                           [timestamp |-> w, latencyMs |-> conc.writers[w].latencyMs],
                       !.writers[w].pc = "finish"]
    /\ targets' = [targets EXCEPT ![Unseen] = MapView(conc'.heap, conc'.mapped)]
    /\ UNCHANGED written

\* Write: the rest of the call and the deferred tb.mu.Unlock(); written records
\* the sample when it went into the buffer of the map
WriteFinish(w) ==
    /\ conc.writers[w].pc = "finish"
    /\ conc' = [conc EXCEPT
                   !.heap[conc.writers[w].tb] =
                       [buf |-> TargetWrite(@.buf, bufferSize, w,
                                            conc.writers[w].latencyMs),
                        holder |-> 0],
                   !.writers[w].pc = "done"]
    /\ targets' = [targets EXCEPT ![Unseen] = MapView(conc'.heap, conc'.mapped)]
    /\ written' = IF conc.writers[w].tb = conc.mapped
                  THEN [written EXCEPT ![Unseen] =
                           Append(@, [timestamp |-> w,
                                      latencyMs |-> conc.writers[w].latencyMs])]
                  ELSE written

\* GetStats: the lookup under m.mu.RLock(); without an entry it returns at once
StatsLookup ==
    /\ conc.reader.pc = "idle"
    /\ IF conc.mapped = 0
       THEN conc' = [conc EXCEPT !.obs = [op |-> "GetStats", written |-> written[Unseen],
                                          stats |-> EmptyStats(Unseen, 0)]]
       ELSE conc' = [conc EXCEPT !.reader = [pc |-> "read", tb |-> conc.mapped]]
    /\ UNCHANGED <<targets, written>>

\* GetStats: tb.mu.RLock(), calculateStats, tb.mu.RUnlock()
StatsRead ==
    /\ conc.reader.pc = "read"
    /\ conc.heap[conc.reader.tb].holder = 0
    /\ conc' = [conc EXCEPT
                   !.reader = [pc |-> "idle", tb |-> 0],
                   !.obs = [op |-> "GetStats", written |-> written[Unseen],
                            stats |-> calculateStats(Unseen, conc.heap[conc.reader.tb].buf,
                                                     bufferSize)]]
    /\ UNCHANGED <<targets, written>>

NextConc ==
    \/ UNCHANGED <<bufferSize, ret, nonConcVars>> /\ \E w \in WriterNames : WriteLookup(w)
    \/ UNCHANGED <<bufferSize, ret, nonConcVars>> /\ \E w \in WriterNames : WriteInsert(w)
    \/ UNCHANGED <<bufferSize, ret, nonConcVars>> /\ \E w \in WriterNames : WriteLock(w)
    \/ UNCHANGED <<bufferSize, ret, nonConcVars>> /\ \E w \in WriterNames : WriteStore(w)
    \/ UNCHANGED <<bufferSize, ret, nonConcVars>> /\ \E w \in WriterNames : WriteFinish(w)
    \/ UNCHANGED <<bufferSize, ret, nonConcVars>> /\ StatsLookup
    \/ UNCHANGED <<bufferSize, ret, nonConcVars>> /\ StatsRead

\* a fresh MemoryBuffer; the goroutines are about to make their first Write
InitConc ==
    /\ InitMemory
    /\ NewCollector(TRUE) /\ Connect /\ StartServer(TRUE) /\ NewICMPProbe(1)
    /\ NoConfigCall /\ NoStorageCall /\ NoHub /\ NoHistoryCall
    /\ \E lats \in [WriterNames -> Latencies] : conc = StartWriters(lats)

SpecConc == InitConc /\ [][NextConc]_vars

-----------------------------------------------------------------------------
(* internal/collector: the operations *)

\* a variant of StepAfter that broadcasts a result before storing it
StepAfterBroadcastFirst(step) ==
    CASE step = "execute" -> "broadcast"
      [] step = "sending" -> "memory"
      [] step = "memory" -> "archive"
      [] step = "archive" -> "done"

\* runProbe: what follows each of its steps
StepAfter(step) ==
    CASE step = "execute" -> "memory"
      [] step = "memory" -> "archive"
      [] step = "archive" -> "broadcast"
      [] step = "sending" -> "done"

\* a variant of RoundJoined that does not wait for the round's goroutines
RoundJoinedNoWait(r) == TRUE

\* runAllProbes: wg.Wait() returns once every goroutine of the round is done
RoundJoined(r) == \A t \in Names : probes[<<r, t>>].pc = "done"

\* runProbe moves on from a step; its locals are gone once it has returned
Advance(probe, step) ==
    IF StepAfter(step) = "done" THEN [IdleProbe EXCEPT !.pc = "done"]
    ELSE [probe EXCEPT !.pc = StepAfter(step)]

\* runAllProbes: one goroutine per probe
SpawnRound ==
    /\ rounds' = rounds + 1
    /\ now' = now + 1
    /\ probes' = [g \in ProbeIds |->
                    IF g[1] = rounds + 1 THEN [IdleProbe EXCEPT !.pc = "execute"]
                    ELSE probes[g]]

\* Start, up to its first runAllProbes
StartCollector ==
    /\ driver = "new"
    /\ stop = "idle"
    /\ SpawnRound
    /\ driver' = "initial"
    /\ UNCHANGED <<memVars, archive, hasStorage, ctxDone, wg, subscribers, chans,
                   readers, stop, panic, broadcasts>>

\* Start: the initial runAllProbes returns; wg.Add(1) and the goroutine starts
StartGoroutine ==
    /\ driver = "initial"
    /\ RoundJoined(rounds)
    /\ wg' = wg + 1
    /\ driver' = "select"
    /\ UNCHANGED <<memVars, archive, hasStorage, now, ctxDone, rounds, probes,
                   subscribers, chans, readers, stop, panic, broadcasts>>

\* the goroutine of Start: case <-ticker.C
Tick ==
    /\ driver = "select"
    /\ rounds < MaxRounds
    /\ SpawnRound
    /\ driver' = "round"
    /\ UNCHANGED <<memVars, archive, hasStorage, ctxDone, wg, subscribers, chans,
                   readers, stop, panic, broadcasts>>

\* the goroutine of Start: runAllProbes returns, back to the select
RoundDone ==
    /\ driver = "round"
    /\ RoundJoined(rounds)
    /\ driver' = "select"
    /\ UNCHANGED <<memVars, archive, hasStorage, now, ctxDone, wg, rounds, probes,
                   subscribers, chans, readers, stop, panic, broadcasts>>

\* the goroutine of Start: case <-c.ctx.Done(), then the deferred wg.Done()
DriverExit ==
    /\ driver = "select"
    /\ ctxDone
    /\ driver' = "exited"
    /\ wg' = wg - 1
    /\ UNCHANGED <<memVars, archive, hasStorage, now, ctxDone, rounds, probes,
                   subscribers, chans, readers, stop, panic, broadcasts>>

\* runProbe: p.Execute(ctx) returns a result stamped with time.Now()
Execute(g) ==
    /\ probes[g].pc = "execute"
    /\ LET latencyMs == IF g[2] \in DownHosts THEN -1 ELSE UpLatencyMs
       IN  probes' = [probes EXCEPT ![g] =
                         Advance([@ EXCEPT !.result =
                                     [Target |-> g[2], Timestamp |-> now,
                                      LatencyMs |-> latencyMs,
                                      Success |-> latencyMs >= 0]], "execute")]
    /\ UNCHANGED <<memVars, archive, hasStorage, now, ctxDone, wg, driver, rounds,
                   subscribers, chans, readers, stop, panic, broadcasts>>

\* runProbe: c.memory.Write(result.Target, result.Timestamp, result.LatencyMs)
StoreMemory(g) ==
    /\ probes[g].pc = "memory"
    /\ LET r == probes[g].result
       IN  /\ targets' = MemoryWrite(targets, bufferSize, r.Target, r.Timestamp,
                                      r.LatencyMs)
           /\ written' = [written EXCEPT ![r.Target] =
                             Append(@, [timestamp |-> r.Timestamp,
                                        latencyMs |-> r.LatencyMs])]
    /\ probes' = [probes EXCEPT ![g] = Advance(@, "memory")]
    /\ UNCHANGED <<bufferSize, ret, archive, hasStorage, now, ctxDone, wg, driver, rounds,
                   subscribers, chans, readers, stop, panic, broadcasts>>

\* runProbe: c.storage.Write(...) when there is a storage; an error is only logged
StoreArchive(g) ==
    /\ probes[g].pc = "archive"
    /\ LET r == probes[g].result
       IN  \/ /\ hasStorage
              /\ r.Target \notin FaultyArchives
              /\ archive' = [archive EXCEPT ![r.Target] =
                                Append(@, [timestamp |-> r.Timestamp,
                                           latencyMs |-> r.LatencyMs,
                                           isLoss |-> ~r.Success])]
              /\ probes' = [probes EXCEPT ![g] = Advance(@, "archive")]
           \/ /\ hasStorage
              /\ r.Target \in FaultyArchives
              /\ archive' = archive
              /\ probes' = [probes EXCEPT ![g] = Advance([@ EXCEPT !.err = TRUE],
                                                         "archive")]
           \/ /\ ~hasStorage
              /\ archive' = archive
              /\ probes' = [probes EXCEPT ![g] = Advance(@, "archive")]
    /\ UNCHANGED <<memVars, hasStorage, now, ctxDone, wg, driver, rounds, subscribers,
                   chans, readers, stop, broadcasts, panic>>

\* broadcast: c.subMu.RLock()
BroadcastLock(g) ==
    /\ probes[g].pc = "broadcast"
    /\ readers' = readers \cup {g}
    /\ probes' = [probes EXCEPT ![g].pc = "sending", ![g].todo = subscribers]
    /\ broadcasts' = [broadcasts EXCEPT ![g[2]] = Append(@, probes[g].result)]
    /\ UNCHANGED <<memVars, archive, hasStorage, now, ctxDone, wg, driver, rounds,
                   subscribers, chans, stop, panic>>

\* a variant of TrySend that makes room by dropping the oldest queued result
TrySendDropOldest(buf, result) ==
    IF Len(buf) < SubscriberBuffer THEN Append(buf, result)
    ELSE Append(Tail(buf), result)

\* broadcast: select { case ch <- result: default: } on a buffered channel
TrySend(buf, result) ==
    IF Len(buf) < SubscriberBuffer THEN Append(buf, result) ELSE buf

\* broadcast: one iteration of the loop over c.subscribers
BroadcastSend(g, ch) ==
    /\ probes[g].pc = "sending"
    /\ ch \in probes[g].todo
    /\ IF chans[ch].closed
       THEN /\ panic' = "send on closed channel"
            /\ chans' = chans
       ELSE /\ chans' = [chans EXCEPT ![ch].buf = TrySend(@, probes[g].result)]
            /\ panic' = panic
    /\ probes' = [probes EXCEPT ![g].todo = @ \ {ch}]
    /\ UNCHANGED <<memVars, archive, hasStorage, now, ctxDone, wg, driver, rounds,
                   subscribers, readers, stop, broadcasts>>

\* broadcast: the loop is over, the deferred c.subMu.RUnlock(); runProbe logs, returns
BroadcastUnlock(g) ==
    /\ probes[g].pc = "sending"
    /\ probes[g].todo = {}
    /\ readers' = readers \ {g}
    /\ probes' = [probes EXCEPT ![g] = Advance(@, "sending")]
    /\ UNCHANGED <<memVars, archive, hasStorage, now, ctxDone, wg, driver, rounds,
                   subscribers, chans, stop, panic, broadcasts>>

\* c.subMu.Lock() succeeds: nobody holds the lock for reading
CanLock == readers = {}

\* Subscribe: make(chan probe.ProbeResult, 100), added under the lock
Subscribe ==
    /\ CanLock
    /\ Cardinality({c \in Chans : chans[c].made}) < Len(ChanOrder)
    /\ LET ch == ChanOrder[Cardinality({c \in Chans : chans[c].made}) + 1]
       IN  /\ chans' = [chans EXCEPT ![ch].made = TRUE]
           /\ subscribers' = subscribers \cup {ch}
    /\ UNCHANGED <<memVars, archive, hasStorage, now, ctxDone, wg, driver, rounds,
                   probes, readers, stop, panic, broadcasts>>

\* a variant of Unsubscribe that closes the channel and keeps it in the set
UnsubscribeKeepsEntry(ch) ==
    /\ CanLock
    /\ IF ch \in subscribers
       THEN IF chans[ch].closed
            THEN panic' = "close of closed channel" /\ chans' = chans
            ELSE chans' = [chans EXCEPT ![ch].closed = TRUE] /\ panic' = panic
       ELSE UNCHANGED <<chans, panic>>
    /\ UNCHANGED <<memVars, archive, hasStorage, now, ctxDone, wg, driver, rounds,
                   probes, subscribers, readers, stop, broadcasts>>

\* Unsubscribe(ch): close and delete the channel if it is in the set
Unsubscribe(ch) ==
    /\ CanLock
    /\ IF ch \in subscribers
       THEN /\ IF chans[ch].closed
               THEN panic' = "close of closed channel" /\ chans' = chans
               ELSE chans' = [chans EXCEPT ![ch].closed = TRUE] /\ panic' = panic
            /\ subscribers' = subscribers \ {ch}
       ELSE UNCHANGED <<chans, panic, subscribers>>
    /\ UNCHANGED <<memVars, archive, hasStorage, now, ctxDone, wg, driver, rounds,
                   probes, readers, stop, broadcasts>>

\* a subscriber takes the next result off its channel
Receive(ch) ==
    /\ chans[ch].made
    /\ chans[ch].buf /= <<>>
    /\ chans' = [chans EXCEPT ![ch].buf = Tail(@)]
    /\ UNCHANGED <<memVars, archive, hasStorage, now, ctxDone, wg, driver, rounds,
                   probes, subscribers, readers, stop, panic, broadcasts>>

\* Receive, with the subscriber keeping what it has received
ReceiveRecorded(ch) ==
    /\ chans[ch].made
    /\ chans[ch].buf /= <<>>
    /\ chans' = [chans EXCEPT ![ch].buf = Tail(@),
                              ![ch].received = Append(@, Head(chans[ch].buf))]
    /\ UNCHANGED <<memVars, archive, hasStorage, now, ctxDone, wg, driver, rounds,
                   probes, subscribers, readers, stop, panic, broadcasts>>

\* Stop: c.cancel(); called once Start has returned
StopCancel ==
    /\ stop = "idle"
    /\ driver \notin {"new", "initial"}
    /\ ctxDone' = TRUE
    /\ stop' = "wait"
    /\ UNCHANGED <<memVars, archive, hasStorage, now, wg, driver, rounds, probes,
                   subscribers, chans, readers, panic, broadcasts>>

\* a variant of WaitGroupDone that does not wait
WaitGroupDoneNoWait == TRUE

\* Stop: c.wg.Wait() returns
WaitGroupDone == wg = 0

\* Stop: after c.wg.Wait(), close and delete every subscriber under the lock
StopClose ==
    /\ stop = "wait"
    /\ WaitGroupDone
    /\ CanLock
    /\ IF \E ch \in subscribers : chans[ch].closed
       THEN panic' = "close of closed channel" /\ chans' = chans
       ELSE /\ chans' = [ch \in Chans |->
                           IF ch \in subscribers THEN [chans[ch] EXCEPT !.closed = TRUE]
                           ELSE chans[ch]]
            /\ panic' = panic
    /\ subscribers' = {}
    /\ stop' = "done"
    /\ UNCHANGED <<memVars, archive, hasStorage, now, ctxDone, wg, driver, rounds,
                   probes, readers, broadcasts>>

\* a panic ends the process
Running == panic = "none"

NextColl ==
    \/ Running /\ UNCHANGED restVars /\ StartCollector
    \/ Running /\ UNCHANGED restVars /\ StartGoroutine
    \/ Running /\ UNCHANGED restVars /\ Tick
    \/ Running /\ UNCHANGED restVars /\ RoundDone
    \/ Running /\ UNCHANGED restVars /\ DriverExit
    \/ Running /\ UNCHANGED restVars /\ \E g \in ProbeIds : Execute(g)
    \/ Running /\ UNCHANGED restVars /\ \E g \in ProbeIds : StoreMemory(g)
    \/ Running /\ UNCHANGED restVars /\ \E g \in ProbeIds : StoreArchive(g)
    \/ Running /\ UNCHANGED restVars /\ \E g \in ProbeIds : BroadcastLock(g)
    \/ Running /\ UNCHANGED restVars /\ \E g \in ProbeIds, ch \in Chans : BroadcastSend(g, ch)
    \/ Running /\ UNCHANGED restVars /\ \E g \in ProbeIds : BroadcastUnlock(g)
    \/ Running /\ UNCHANGED restVars /\ Subscribe
    \/ Running /\ UNCHANGED restVars /\ \E ch \in Chans : Unsubscribe(ch)
    \/ Running /\ UNCHANGED restVars /\ \E ch \in Chans : Receive(ch)
    \/ Running /\ UNCHANGED restVars /\ StopCancel
    \/ Running /\ UNCHANGED restVars /\ StopClose

\* NewMemoryBuffer(bufferSize) for the collector's ring buffer
InitColl ==
    /\ bufferSize \in CollectorBufferSizes
    /\ targets = [t \in Names |-> NoBuffer]
    /\ written = [t \in Names |-> <<>>]
    /\ ret = [op |-> "NewMemoryBuffer"]
    /\ \E store \in BOOLEAN : NewCollector(store)
    /\ Connect
    /\ StartServer(TRUE)
    /\ NewICMPProbe(1) /\ NoDirectCalls

SpecColl == InitColl /\ [][NextColl]_vars

\* the collector with subscribers that record what they receive
NextOrder ==
    \/ Running /\ UNCHANGED restVars /\ StartCollector
    \/ Running /\ UNCHANGED restVars /\ StartGoroutine
    \/ Running /\ UNCHANGED restVars /\ Tick
    \/ Running /\ UNCHANGED restVars /\ RoundDone
    \/ Running /\ UNCHANGED restVars /\ DriverExit
    \/ Running /\ UNCHANGED restVars /\ \E g \in ProbeIds : Execute(g)
    \/ Running /\ UNCHANGED restVars /\ \E g \in ProbeIds : StoreMemory(g)
    \/ Running /\ UNCHANGED restVars /\ \E g \in ProbeIds : StoreArchive(g)
    \/ Running /\ UNCHANGED restVars /\ \E g \in ProbeIds : BroadcastLock(g)
    \/ Running /\ UNCHANGED restVars /\ \E g \in ProbeIds, ch \in Chans : BroadcastSend(g, ch)
    \/ Running /\ UNCHANGED restVars /\ \E g \in ProbeIds : BroadcastUnlock(g)
    \/ Running /\ UNCHANGED restVars /\ Subscribe
    \/ Running /\ UNCHANGED restVars /\ \E ch \in Chans : Unsubscribe(ch)
    \/ Running /\ UNCHANGED restVars /\ \E ch \in Chans : ReceiveRecorded(ch)
    \/ Running /\ UNCHANGED restVars /\ StopCancel
    \/ Running /\ UNCHANGED restVars /\ StopClose

SpecOrder == InitColl /\ [][NextOrder]_vars

-----------------------------------------------------------------------------
(* internal/ipc: the client's request helpers and readLoop *)

RequestTimeout == 5          \* seconds GetStats, GetTargets and Subscribe wait
HistoryTimeout == 10         \* seconds GetHistory waits

TimeoutOf(kind) == IF kind = "get_history" THEN HistoryTimeout ELSE RequestTimeout

\* the types of the response the server gives to a request
ResponseTypes(kind) ==
    IF kind = "get_stats" THEN {"stats", "error"} ELSE {"history", "error"}

\* a variant of Route that hands a response to every waiting caller
RouteToAllPending(p, id) == IF id /= 0 THEN p ELSE {}

\* readLoop: the slots a response with this id is sent to; c.pending[resp.ID]
Route(p, id) == IF id /= 0 /\ id \in p THEN {id} ELSE {}

\* select { case ch <- x: default: } on a channel of the given capacity
TrySendCap(buf, x, cap) == IF Len(buf) < cap THEN Append(buf, x) ELSE buf

\* a variant of cleanupRequest that leaves the entry in the map
cleanupRequestKeeps(p, id) == p

\* cleanupRequest: delete(c.pending, reqID) under pendingMu
cleanupRequest(p, id) == p \ {id}

\* sendRequest: generateRequestID, make(chan Response, 1), c.pending[reqID] = respCh
sendRequest(k, kind) ==
    /\ callers[k].pc = "idle"
    /\ kind = KindOf(k)
    /\ nextId < MaxRequests
    /\ nextId' = nextId + 1
    /\ pending' = pending \cup {nextId + 1}
    /\ callers' = [callers EXCEPT ![k] =
                      [pc |-> "encoding", id |-> nextId + 1, kind |-> kind,
                       waited |-> 0, outcome |-> [result |-> "none"]]]
    /\ UNCHANGED <<respCh, outbox, inbox, resultCh, pushes, link>>

\* sendRequest: c.encoder.Encode succeeds, the helper starts to wait
EncodeRequest(k) ==
    /\ callers[k].pc = "encoding"
    /\ link.conn = "open"
    /\ outbox' = outbox \cup {[id |-> callers[k].id, kind |-> callers[k].kind]}
    /\ callers' = [callers EXCEPT ![k].pc = "waiting"]
    /\ UNCHANGED <<pending, respCh, inbox, resultCh, nextId, pushes, link>>

\* sendRequest: c.encoder.Encode fails; the entry is deleted, the helper returns err
EncodeFails(k) ==
    /\ callers[k].pc = "encoding"
    /\ pending' = pending \ {callers[k].id}
    /\ callers' = [callers EXCEPT ![k].pc = "idle",
                                  ![k].outcome = [result |-> "send error"]]
    /\ UNCHANGED <<respCh, outbox, inbox, resultCh, nextId, pushes, link>>

\* the helper's select: case resp := <-respCh
ReceiveResponse(k) ==
    /\ callers[k].pc = "waiting"
    /\ respCh[callers[k].id] /= <<>>
    /\ respCh' = [respCh EXCEPT ![callers[k].id] = Tail(@)]
    /\ callers' = [callers EXCEPT ![k].pc = "cleanup", ![k].waited = 0,
                                  ![k].outcome = [result |-> "response",
                                                  resp |-> Head(respCh[callers[k].id])]]
    /\ UNCHANGED <<pending, outbox, inbox, resultCh, nextId, pushes, link>>

\* the helper's select: case <-time.After(...)
TimeoutFires(k) ==
    /\ callers[k].pc = "waiting"
    /\ callers[k].waited >= TimeoutOf(callers[k].kind)
    /\ callers' = [callers EXCEPT ![k].pc = "cleanup", ![k].waited = 0,
                                  ![k].outcome = [result |-> "timeout"]]
    /\ UNCHANGED <<pending, respCh, outbox, inbox, resultCh, nextId, pushes, link>>

\* the helper returns: the deferred c.cleanupRequest(reqID) runs
ReturnFromHelper(k) ==
    /\ callers[k].pc = "cleanup"
    /\ pending' = cleanupRequest(pending, callers[k].id)
    /\ callers' = [callers EXCEPT ![k].pc = "idle"]
    /\ UNCHANGED <<respCh, outbox, inbox, resultCh, nextId, pushes, link>>

\* time passes for every helper that waits
Elapse ==
    /\ \E k \in CallerNames :
          callers[k].pc = "waiting" /\ callers[k].waited < TimeoutOf(callers[k].kind)
    /\ callers' = [k \in CallerNames |->
                      IF callers[k].pc = "waiting"
                      THEN [callers[k] EXCEPT !.waited =
                               IF @ + ClockStep > TimeoutOf(callers[k].kind)
                               THEN TimeoutOf(callers[k].kind) ELSE @ + ClockStep]
                      ELSE callers[k]]
    /\ UNCHANGED <<pending, respCh, outbox, inbox, resultCh, nextId, pushes, link>>

\* readLoop: one line scanned and routed
readLoop(m) ==
    /\ link.reader = "running"
    /\ m \in inbox
    /\ inbox' = inbox \ {m}
    /\ IF m.Type = "probe_result"
       THEN /\ resultCh' = TrySendCap(resultCh, m, ResultBuffer)
            /\ respCh' = respCh
       ELSE /\ respCh' = [id \in RequestIds |->
                             IF id \in Route(pending, m.ID)
                             THEN TrySendCap(respCh[id], m, 1) ELSE respCh[id]]
            /\ resultCh' = resultCh
    /\ UNCHANGED <<pending, callers, outbox, nextId, pushes, link>>

\* the server answers a request it has read
ServerResponds(req, type) ==
    /\ link.conn = "open"
    /\ req \in outbox
    /\ type \in ResponseTypes(req.kind)
    /\ outbox' = outbox \ {req}
    /\ inbox' = inbox \cup {[ID |-> req.id, Type |-> type, Seq |-> 0]}
    /\ UNCHANGED <<pending, respCh, callers, resultCh, nextId, pushes, link>>

\* the server pushes a probe_result, which carries no id
ServerPushes ==
    /\ link.conn = "open"
    /\ pushes < MaxPushes
    /\ pushes' = pushes + 1
    /\ inbox' = inbox \cup {[ID |-> 0, Type |-> "probe_result", Seq |-> pushes + 1]}
    /\ UNCHANGED <<pending, respCh, callers, outbox, resultCh, nextId, link>>

Messages ==
    [ID : 0 .. MaxRequests, Type : {"stats", "history", "error", "probe_result"},
     Seq : 0 .. MaxPushes]

NextClient ==
    \/ UNCHANGED <<memVars, collVars, srvVars, prbVars, extVars>> /\ \E k \in CallerNames, kind \in Kinds : sendRequest(k, kind)
    \/ UNCHANGED <<memVars, collVars, srvVars, prbVars, extVars>> /\ \E k \in CallerNames : EncodeRequest(k)
    \/ UNCHANGED <<memVars, collVars, srvVars, prbVars, extVars>> /\ \E k \in CallerNames : EncodeFails(k)
    \/ UNCHANGED <<memVars, collVars, srvVars, prbVars, extVars>> /\ \E k \in CallerNames : ReceiveResponse(k)
    \/ UNCHANGED <<memVars, collVars, srvVars, prbVars, extVars>> /\ \E k \in CallerNames : TimeoutFires(k)
    \/ UNCHANGED <<memVars, collVars, srvVars, prbVars, extVars>> /\ \E k \in CallerNames : ReturnFromHelper(k)
    \/ UNCHANGED <<memVars, collVars, srvVars, prbVars, extVars>> /\ Elapse
    \/ UNCHANGED <<memVars, collVars, srvVars, prbVars, extVars>> /\ \E m \in Messages : readLoop(m)
    \/ UNCHANGED <<memVars, collVars, srvVars, prbVars, extVars>> /\ \E req \in outbox, type \in {"stats", "history", "error"} : ServerResponds(req, type)
    \/ UNCHANGED <<memVars, collVars, srvVars, prbVars, extVars>> /\ ServerPushes

\* a connected client; the ring buffer and the collector are not used
InitClient ==
    /\ bufferSize = 1
    /\ targets = [t \in Names |-> NoBuffer]
    /\ written = [t \in Names |-> <<>>]
    /\ ret = [op |-> "NewMemoryBuffer"]
    /\ NewCollector(TRUE)
    /\ Connect
    /\ StartServer(TRUE)
    /\ NewICMPProbe(1) /\ NoDirectCalls

SpecClient == InitClient /\ [][NextClient]_vars

-----------------------------------------------------------------------------
(* internal/ipc: the end of the client's connection *)

\* the requests in flight to which no response is on its way
Unanswered ==
    {callers[k].id : k \in {c \in CallerNames :
                               /\ callers[c].pc \in {"encoding", "waiting"}
                               /\ respCh[callers[c].id] = <<>>
                               /\ \A m \in inbox : m.ID /= callers[c].id}}

\* the peer closes the connection, or the transport fails
ConnectionLost ==
    /\ link.conn = "open"
    /\ link' = [link EXCEPT !.conn = "closed", !.cut = Unanswered]
    /\ UNCHANGED <<pending, respCh, callers, outbox, inbox, resultCh, nextId, pushes>>

\* a variant of AlreadyClosed that never takes the early return
AlreadyClosedNever(closed) == FALSE

\* Close: if c.closed { return nil }
AlreadyClosed(closed) == closed

\* Close up to its c.wg.Wait(): c.closed = true, close(c.ctx), c.conn.Close()
Close ==
    /\ link.closeCalls < MaxCloseCalls
    /\ IF AlreadyClosed(link.closed)
       THEN link' = [link EXCEPT !.closeCalls = @ + 1, !.returned = @ + 1]
       ELSE IF link.ctxClosed > 0
       THEN link' = [link EXCEPT !.closeCalls = @ + 1,
                                 !.panic = "close of closed channel"]
       ELSE link' = [link EXCEPT !.closeCalls = @ + 1,
                                 !.closed = TRUE,
                                 !.ctxClosed = @ + 1,
                                 !.conn = "closed",
                                 !.cut = IF link.conn = "open" THEN Unanswered ELSE @,
                                 !.waiting = @ + 1]
    /\ UNCHANGED <<pending, respCh, callers, outbox, inbox, resultCh, nextId, pushes>>

\* Close: c.wg.Wait() returns once readLoop has returned; return nil
CloseReturns ==
    /\ link.waiting > 0
    /\ link.reader = "exited"
    /\ link' = [link EXCEPT !.waiting = @ - 1, !.returned = @ + 1]
    /\ UNCHANGED <<pending, respCh, callers, outbox, inbox, resultCh, nextId, pushes>>

\* readLoop: c.scanner.Scan() returns false on the closed connection, what was not
\* read is gone; close(c.resultCh) and the deferred c.wg.Done()
ReaderExits ==
    /\ link.reader = "running"
    /\ link.conn = "closed"
    /\ inbox' = {}
    /\ link' = [link EXCEPT !.reader = "exited",
                            !.resultClosed = @ + 1,
                            !.panic = IF link.resultClosed > 0
                                      THEN "close of closed channel" ELSE @]
    /\ UNCHANGED <<pending, respCh, callers, outbox, resultCh, nextId, pushes>>

\* the reader of Results() receives a result
TakeResult ==
    /\ link.consumer = "receiving"
    /\ resultCh /= <<>>
    /\ resultCh' = Tail(resultCh)
    /\ UNCHANGED <<pending, respCh, callers, outbox, inbox, nextId, pushes, link>>

\* the reader of Results() finds the channel closed and empty
ResultsEnd ==
    /\ link.consumer = "receiving"
    /\ resultCh = <<>>
    /\ link.resultClosed > 0
    /\ link' = [link EXCEPT !.consumer = "done"]
    /\ UNCHANGED <<pending, respCh, callers, outbox, inbox, resultCh, nextId, pushes>>

\* a panic ends the process
LinkRunning == link.panic = "none"

\* the response the server gives to a request it can answer
AnswerTo(kind) == IF kind = "get_stats" THEN "stats" ELSE "history"

NextClose ==
    \/ UNCHANGED <<memVars, collVars, srvVars, prbVars, extVars>> /\ LinkRunning /\ \E k \in CallerNames, kind \in Kinds : sendRequest(k, kind)
    \/ UNCHANGED <<memVars, collVars, srvVars, prbVars, extVars>> /\ LinkRunning /\ \E k \in CallerNames : EncodeRequest(k)
    \/ UNCHANGED <<memVars, collVars, srvVars, prbVars, extVars>> /\ LinkRunning /\ \E k \in CallerNames : EncodeFails(k)
    \/ UNCHANGED <<memVars, collVars, srvVars, prbVars, extVars>> /\ LinkRunning /\ \E k \in CallerNames : ReceiveResponse(k)
    \/ UNCHANGED <<memVars, collVars, srvVars, prbVars, extVars>> /\ LinkRunning /\ \E k \in CallerNames : TimeoutFires(k)
    \/ UNCHANGED <<memVars, collVars, srvVars, prbVars, extVars>> /\ LinkRunning /\ \E k \in CallerNames : ReturnFromHelper(k)
    \/ UNCHANGED <<memVars, collVars, srvVars, prbVars, extVars>> /\ LinkRunning /\ Elapse
    \/ UNCHANGED <<memVars, collVars, srvVars, prbVars, extVars>> /\ LinkRunning /\ \E m \in Messages : readLoop(m)
    \/ UNCHANGED <<memVars, collVars, srvVars, prbVars, extVars>> /\ LinkRunning /\ \E req \in outbox : ServerResponds(req, AnswerTo(req.kind))
    \/ UNCHANGED <<memVars, collVars, srvVars, prbVars, extVars>> /\ LinkRunning /\ ServerPushes
    \/ UNCHANGED <<memVars, collVars, srvVars, prbVars, extVars>> /\ LinkRunning /\ ConnectionLost
    \/ UNCHANGED <<memVars, collVars, srvVars, prbVars, extVars>> /\ LinkRunning /\ Close
    \/ UNCHANGED <<memVars, collVars, srvVars, prbVars, extVars>> /\ LinkRunning /\ CloseReturns
    \/ UNCHANGED <<memVars, collVars, srvVars, prbVars, extVars>> /\ LinkRunning /\ ReaderExits
    \/ UNCHANGED <<memVars, collVars, srvVars, prbVars, extVars>> /\ LinkRunning /\ TakeResult
    \/ UNCHANGED <<memVars, collVars, srvVars, prbVars, extVars>> /\ LinkRunning /\ ResultsEnd

\* a step of the goroutine that calls a request helper
HelperStep(k) ==
    \/ EncodeRequest(k) \/ EncodeFails(k)
    \/ ReceiveResponse(k) \/ TimeoutFires(k)
    \/ ReturnFromHelper(k)

\* every goroutine that can run does run: readLoop, the helpers in their select
\* (the timers fire as time passes), the caller of Close, the reader of Results()
FairClose ==
    /\ WF_vars(LinkRunning /\ UNCHANGED nonCliVars /\ ReaderExits)
    /\ WF_vars(LinkRunning /\ UNCHANGED nonCliVars /\ CloseReturns)
    /\ WF_vars(LinkRunning /\ UNCHANGED nonCliVars /\ (TakeResult \/ ResultsEnd))
    /\ WF_vars(LinkRunning /\ UNCHANGED nonCliVars /\ Elapse)
    /\ \A k \in CallerNames : WF_vars(LinkRunning /\ UNCHANGED nonCliVars /\ HelperStep(k))

SpecClose == InitClient /\ [][NextClose]_vars /\ FairClose

-----------------------------------------------------------------------------
(* internal/ipc: the server's goroutines and Stop *)

\* the lines a client may write.  n1 subscribes and then unsubscribes; n2 writes
\* requests of every other type, a request of an unknown type, and lines
\* json.Unmarshal rejects, with and without a legible id
Script == <<[valid |-> TRUE, hasId |-> TRUE, type |-> "subscribe"],
            [valid |-> TRUE, hasId |-> TRUE, type |-> "unsubscribe"]>>

LinesOf(n) ==
    IF n = "n1"
    THEN {Script[i] : i \in {conns[n].sent + 1} \cap (1 .. Len(Script))}
    ELSE {[valid |-> TRUE, hasId |-> TRUE, type |-> "get_targets"],
          [valid |-> TRUE, hasId |-> TRUE, type |-> "get_stats"],
          [valid |-> TRUE, hasId |-> TRUE, type |-> "get_history"],
          [valid |-> TRUE, hasId |-> TRUE, type |-> "bogus"],
          [valid |-> FALSE, hasId |-> TRUE, type |-> "get_stats"],
          [valid |-> FALSE, hasId |-> FALSE, type |-> "none"]}

\* n1 writes its script, n2 a single line
LineBudget(n) == IF n = "n1" THEN Len(Script) ELSE 1

\* n1 may stop reading what the server writes; n2 reads at once
MayStall(n) == n = "n1"

AllLines == [valid : BOOLEAN, hasId : BOOLEAN,
             type : {"subscribe", "unsubscribe", "get_targets", "get_stats",
                     "get_history", "bogus", "none"}]

\* a variant of handleRequest that does not echo the id
handleRequestNoId(req, withCollector, fetchOk) ==
    [ID |-> 0,
     Type |-> IF req.type \in {"subscribe", "unsubscribe"} THEN "ok" ELSE "error"]

\* handleRequest: the response to a decoded request
handleRequest(req, withCollector, fetchOk) ==
    CASE req.type \in {"subscribe", "unsubscribe"} -> [ID |-> req.id, Type |-> "ok"]
      [] req.type \in {"get_targets", "get_stats", "get_history"} /\ ~withCollector ->
            [ID |-> req.id, Type |-> "error"]
      [] req.type = "get_targets" /\ withCollector -> [ID |-> req.id, Type |-> "targets"]
      [] req.type = "get_stats" /\ withCollector -> [ID |-> req.id, Type |-> "stats"]
      [] req.type = "get_history" /\ withCollector ->
            [ID |-> req.id, Type |-> IF fetchOk THEN "history" ELSE "error"]
      [] OTHER -> [ID |-> req.id, Type |-> "error"]

\* handleClient: the reply to a line json.Unmarshal rejects; sendError("", ...)
InvalidRequestReply(line) == [ID |-> 0, Type |-> "error"]

\* a variant of ShouldPush that pushes to every connection
ShouldPushAlways(conn) == TRUE

\* broadcastResults: if client.subscribed
ShouldPush(conn) == conn.subscribed

\* Encode returns: the connection is closed (an error) or takes the line; it blocks
\* while the client has stopped reading and the socket's buffer is full
CanEncode(conn) == conn.closed \/ ~conn.stalled

\* s.clientsMu.Lock() succeeds: broadcastResults does not hold it for reading
CanLockClients == forwarder.pc /= "forward"

\* an Encode call on a connection: the line is written unless the connection is closed
Encoded(n, msg, re) ==
    /\ events' = [events EXCEPT ![n] =
                     Append(@, [ev |-> "write", msg |-> msg, re |-> re,
                                delivered |-> ~conns[n].closed])]

\* a client connects to the socket
Dial(n) ==
    /\ conns[n].state = "none"
    /\ server.listener = "open"
    /\ conns' = [conns EXCEPT ![n].state = "dialed"]
    /\ UNCHANGED <<server, srvClients, events, acceptLoop, forwarder, feed, srvStop>>

\* a client writes a line on its connection (a line written before handleClient
\* runs is read no earlier than one written once it runs)
ClientSends(n, l) ==
    /\ l \in LinesOf(n)
    /\ conns[n].handler /= "none"
    /\ ~conns[n].closed
    /\ conns[n].sent < LineBudget(n)
    /\ conns' = [conns EXCEPT ![n].sent = @ + 1,
                              ![n].lines = Append(@, [valid |-> l.valid, type |-> l.type,
                                                      id |-> IF l.hasId THEN conns[n].sent + 1
                                                             ELSE 0])]
    /\ UNCHANGED <<server, srvClients, events, acceptLoop, forwarder, feed, srvStop>>

\* a client stops reading its socket, whose buffer is full, for good
ClientStalls(n) ==
    /\ MayStall(n)
    /\ conns[n].handler /= "none"
    /\ ~conns[n].closed
    /\ ~conns[n].stalled
    /\ conns' = [conns EXCEPT ![n].stalled = TRUE]
    /\ UNCHANGED <<server, srvClients, events, acceptLoop, forwarder, feed, srvStop>>

\* the collector broadcasts a result to the channel the server subscribed
ResultArrives ==
    /\ server.collector
    /\ feed.total < MaxResults
    /\ feed' = [waiting |-> feed.waiting + 1, total |-> feed.total + 1]
    /\ UNCHANGED <<server, srvClients, conns, events, acceptLoop, forwarder, srvStop>>

\* acceptLoop: s.listener.Accept() returns a connection
Accept(n) ==
    /\ acceptLoop.pc = "accept"
    /\ server.listener = "open"
    /\ conns[n].state = "dialed"
    /\ conns' = [conns EXCEPT ![n].state = "accepted"]
    /\ acceptLoop' = [pc |-> "register", conn |-> n]
    /\ UNCHANGED <<server, srvClients, events, forwarder, feed, srvStop>>

\* acceptLoop: Accept fails on the closed listener, s.ctx is closed: return
AcceptFails ==
    /\ acceptLoop.pc = "accept"
    /\ server.listener = "closed"
    /\ server.ctx = "closed"
    /\ acceptLoop' = [pc |-> "exited", conn |-> "none"]
    /\ server' = [server EXCEPT !.wg = @ - 1]
    /\ UNCHANGED <<srvClients, conns, events, forwarder, feed, srvStop>>

\* acceptLoop: s.clients[client] = struct{}{}; s.wg.Add(1); go s.handleClient(client)
RegisterClient ==
    /\ acceptLoop.pc = "register"
    /\ CanLockClients
    /\ srvClients' = srvClients \cup {acceptLoop.conn}
    /\ server' = [server EXCEPT !.wg = @ + 1]
    /\ conns' = [conns EXCEPT ![acceptLoop.conn].handler = "scan"]
    /\ acceptLoop' = [pc |-> "accept", conn |-> "none"]
    /\ UNCHANGED <<events, forwarder, feed, srvStop>>

\* handleClient: scanner.Scan() returns a line, json.Unmarshal, handleRequest up to
\* its send (client.subscribed is set under client.mu)
ScanLine(n) ==
    /\ conns[n].handler = "scan"
    /\ ~conns[n].closed
    /\ conns[n].lines /= <<>>
    /\ LET line == Head(conns[n].lines)
       IN  /\ events' = [events EXCEPT ![n] = Append(@, [ev |-> "read", line |-> line])]
           /\ \E fetchOk \in BOOLEAN :
                 conns' = [conns EXCEPT
                    ![n].lines = Tail(@),
                    ![n].req = line,
                    ![n].handler = "reply",
                    ![n].subscribed = IF line.valid /\ line.type \in {"subscribe", "unsubscribe"}
                                      THEN line.type = "subscribe" ELSE @,
                    ![n].reply = IF line.valid
                                 THEN handleRequest(line, server.collector, fetchOk)
                                 ELSE InvalidRequestReply(line)]
    /\ UNCHANGED <<server, srvClients, acceptLoop, forwarder, feed, srvStop>>

\* sendOK, sendError, sendResponse: c.encoder.Encode under client.mu
SendReply(n) ==
    /\ conns[n].handler = "reply"
    /\ CanEncode(conns[n])
    /\ Encoded(n, conns[n].reply, conns[n].req.type)
    /\ conns' = [conns EXCEPT ![n].handler = "scan",
                              ![n].req = NoLine,
                              ![n].reply = [ID |-> 0, Type |-> "none"]]
    /\ UNCHANGED <<server, srvClients, acceptLoop, forwarder, feed, srvStop>>

\* handleClient: scanner.Scan() returns false on the closed connection; the deferred
\* delete(s.clients, client), conn.Close(), s.wg.Done()
HandlerExit(n) ==
    /\ conns[n].handler = "scan"
    /\ conns[n].closed
    /\ CanLockClients
    /\ srvClients' = srvClients \ {n}
    /\ conns' = [conns EXCEPT ![n].handler = "exited"]
    /\ server' = [server EXCEPT !.wg = @ - 1]
    /\ UNCHANGED <<events, acceptLoop, forwarder, feed, srvStop>>

\* broadcastResults: case result, ok := <-ch, then s.clientsMu.RLock()
ForwardTake ==
    /\ forwarder.pc = "select"
    /\ feed.waiting > 0
    /\ feed' = [feed EXCEPT !.waiting = @ - 1]
    /\ forwarder' = [pc |-> "forward", todo |-> srvClients]
    /\ UNCHANGED <<server, srvClients, conns, events, acceptLoop, srvStop>>

\* broadcastResults: one iteration of the loop over s.clients
ForwardTo(n) ==
    /\ forwarder.pc = "forward"
    /\ n \in forwarder.todo
    /\ IF ShouldPush(conns[n])
       THEN /\ CanEncode(conns[n])
            /\ Encoded(n, [ID |-> 0, Type |-> "probe_result"], "push")
            /\ conns' = conns
       ELSE UNCHANGED <<events, conns>>
    /\ forwarder' = [forwarder EXCEPT !.todo = @ \ {n}]
    /\ UNCHANGED <<server, srvClients, acceptLoop, feed, srvStop>>

\* broadcastResults: s.clientsMu.RUnlock(), back to the select
ForwardDone ==
    /\ forwarder.pc = "forward"
    /\ forwarder.todo = {}
    /\ forwarder' = [pc |-> "select", todo |-> {}]
    /\ UNCHANGED <<server, srvClients, conns, events, acceptLoop, feed, srvStop>>

\* broadcastResults: case <-s.ctx: return
ForwarderExit ==
    /\ forwarder.pc = "select"
    /\ server.ctx = "closed"
    /\ forwarder' = [pc |-> "exited", todo |-> {}]
    /\ server' = [server EXCEPT !.wg = @ - 1]
    /\ UNCHANGED <<srvClients, conns, events, acceptLoop, feed, srvStop>>

\* Stop: s.closed = true, close(s.ctx), s.listener.Close()
StopBegin ==
    /\ srvStop = "idle"
    /\ ~server.closed
    /\ server' = [server EXCEPT !.closed = TRUE, !.ctx = "closed", !.listener = "closed"]
    /\ srvStop' = "closing"
    /\ UNCHANGED <<srvClients, conns, events, acceptLoop, forwarder, feed>>

\* Stop: client.conn.Close() for every client, under s.clientsMu.Lock()
StopCloseClients ==
    /\ srvStop = "closing"
    /\ CanLockClients
    /\ conns' = [n \in Conns |->
                    IF n \in srvClients THEN [conns[n] EXCEPT !.closed = TRUE]
                    ELSE conns[n]]
    /\ srvStop' = "waiting"
    /\ UNCHANGED <<server, srvClients, events, acceptLoop, forwarder, feed>>

\* Stop: s.wg.Wait() returns, os.Remove(s.socketPath)
StopReturns ==
    /\ srvStop = "waiting"
    /\ server.wg = 0
    /\ server' = [server EXCEPT !.socketFile = FALSE]
    /\ srvStop' = "done"
    /\ UNCHANGED <<srvClients, conns, events, acceptLoop, forwarder, feed>>

\* Stop called again: s.closed is set, return nil
StopAgain ==
    /\ server.closed
    /\ UNCHANGED srvVars

NextServer ==
    \/ UNCHANGED <<memVars, collVars, cliVars, prbVars, extVars>> /\ \E n \in Conns : Dial(n)
    \/ UNCHANGED <<memVars, collVars, cliVars, prbVars, extVars>> /\ \E n \in Conns, l \in AllLines : ClientSends(n, l)
    \/ UNCHANGED <<memVars, collVars, cliVars, prbVars, extVars>> /\ \E n \in Conns : ClientStalls(n)
    \/ UNCHANGED <<memVars, collVars, cliVars, prbVars, extVars>> /\ ResultArrives
    \/ UNCHANGED <<memVars, collVars, cliVars, prbVars, extVars>> /\ \E n \in Conns : Accept(n)
    \/ UNCHANGED <<memVars, collVars, cliVars, prbVars, extVars>> /\ AcceptFails
    \/ UNCHANGED <<memVars, collVars, cliVars, prbVars, extVars>> /\ RegisterClient
    \/ UNCHANGED <<memVars, collVars, cliVars, prbVars, extVars>> /\ \E n \in Conns : ScanLine(n)
    \/ UNCHANGED <<memVars, collVars, cliVars, prbVars, extVars>> /\ \E n \in Conns : SendReply(n)
    \/ UNCHANGED <<memVars, collVars, cliVars, prbVars, extVars>> /\ \E n \in Conns : HandlerExit(n)
    \/ UNCHANGED <<memVars, collVars, cliVars, prbVars, extVars>> /\ ForwardTake
    \/ UNCHANGED <<memVars, collVars, cliVars, prbVars, extVars>> /\ \E n \in Conns : ForwardTo(n)
    \/ UNCHANGED <<memVars, collVars, cliVars, prbVars, extVars>> /\ ForwardDone
    \/ UNCHANGED <<memVars, collVars, cliVars, prbVars, extVars>> /\ ForwarderExit
    \/ UNCHANGED <<memVars, collVars, cliVars, prbVars, extVars>> /\ StopBegin
    \/ UNCHANGED <<memVars, collVars, cliVars, prbVars, extVars>> /\ StopCloseClients
    \/ UNCHANGED <<memVars, collVars, cliVars, prbVars, extVars>> /\ StopReturns
    \/ UNCHANGED <<memVars, collVars, cliVars, prbVars, extVars>> /\ StopAgain

\* a started server, with or without a collector; nothing else is used
InitServer ==
    /\ bufferSize = 1
    /\ targets = [t \in Names |-> NoBuffer]
    /\ written = [t \in Names |-> <<>>]
    /\ ret = [op |-> "NewMemoryBuffer"]
    /\ NewCollector(TRUE)
    /\ Connect
    /\ \E withCollector \in BOOLEAN : StartServer(withCollector)
    /\ NewICMPProbe(1) /\ NoDirectCalls

SpecServer == InitServer /\ [][NextServer]_vars

-----------------------------------------------------------------------------
(* internal/probe: results, the median and ICMPProbe.Execute *)

\* a nil error; any other error is the text its Error method returns
nil == "<nil>"

\* the slices of round-trip times a burst can collect
RttSeqs == UNION {[1 .. n -> RttValues] : n \in 0 .. MaxPings}

\* time.Duration.Microseconds: the whole microseconds of a span of nanoseconds
\* (the spans here are never negative, so flooring is Go's truncation)
Microseconds(d) == d \div 1000

\* float64(d.Microseconds()) / 1000.0
Millis(d) == Rat(Microseconds(d), 1000)

RECURSIVE SortSlice(_)
\* sort.Slice with the less function sorted[i] < sorted[j]
SortSlice(s) == IF s = <<>> THEN <<>> ELSE Insert(Head(s), SortSlice(Tail(s)))

\* calculateMedian, with the wrong element for an even length
calculateMedianUpperMiddle(rtts) ==
    IF Len(rtts) = 0 THEN [value |-> 0, rtts |-> rtts]
    ELSE LET sorted == SortSlice(rtts)
             n == Len(sorted)
         IN  [value |-> sorted[n \div 2 + 1], rtts |-> rtts]

\* calculateMedian: value is what it returns and rtts is the caller's slice
\* after the call (the sort runs on a copy); sequences count from 1, so
\* sorted[n/2-1] and sorted[n/2] are sorted[n \div 2] and sorted[n \div 2 + 1]
calculateMedian(rtts) ==
    IF Len(rtts) = 0 THEN [value |-> 0, rtts |-> rtts]
    ELSE LET sorted == SortSlice(rtts)
             n == Len(sorted)
         IN  IF n % 2 = 0
             THEN [value |-> (sorted[n \div 2] + sorted[n \div 2 + 1]) \div 2,
                   rtts |-> rtts]
             ELSE [value |-> sorted[n \div 2 + 1], rtts |-> rtts]

\* ProbeResult, without Target and Timestamp and without MinMs, MaxMs, AvgMs and
\* JitterMs, which are copied from the pinger's statistics and read by no
\* property below; a time.Duration is an integer count of nanoseconds
ProbeResult ==
    [Latency |-> 0, LatencyMs |-> RatInt(0), Success |-> FALSE, Error |-> "",
     LossPct |-> RatInt(0), PingsSent |-> 0, PingsRecv |-> 0]

\* BaseProbe.NewResult
NewResult(latency, success, err) ==
    LET result == [ProbeResult EXCEPT !.Latency = latency, !.Success = success,
                                      !.PingsSent = 1]
    IN  IF success
        THEN [result EXCEPT !.LatencyMs = Millis(latency), !.PingsRecv = 1,
                            !.LossPct = RatInt(0)]
        ELSE [result EXCEPT !.LatencyMs = RatInt(-1), !.LossPct = RatInt(100),
                            !.PingsRecv = 0,
                            !.Error = IF err /= nil THEN err ELSE ""]

\* BaseProbe.NewBurstResult, with the loss computed from the packets received
NewBurstResultLossFromRecv(stats, err) ==
    LET result ==
            [ProbeResult EXCEPT
                !.PingsSent = stats.PacketsSent,
                !.PingsRecv = stats.PacketsRecv,
                !.LossPct = IF stats.PacketsSent > 0
                            THEN RatMul(Rat(stats.PacketsRecv, stats.PacketsSent),
                                        RatInt(100))
                            ELSE RatInt(100)]
    IN  IF stats.PacketsRecv = 0
        THEN [result EXCEPT !.Success = FALSE, !.LatencyMs = RatInt(-1),
                            !.Error = IF err /= nil THEN err
                                      ELSE "packet loss: no response"]
        ELSE LET medianRtt == calculateMedian(stats.Rtts).value
             IN  [result EXCEPT !.Success = TRUE, !.Latency = medianRtt,
                                !.LatencyMs = Millis(medianRtt)]

\* BaseProbe.NewBurstResult
NewBurstResult(stats, err) ==
    LET result ==
            [ProbeResult EXCEPT
                !.PingsSent = stats.PacketsSent,
                !.PingsRecv = stats.PacketsRecv,
                !.LossPct = IF stats.PacketsSent > 0
                            THEN RatMul(Rat(stats.PacketsSent - stats.PacketsRecv,
                                            stats.PacketsSent),
                                        RatInt(100))
                            ELSE RatInt(100)]
    IN  IF stats.PacketsRecv = 0
        THEN [result EXCEPT !.Success = FALSE, !.LatencyMs = RatInt(-1),
                            !.Error = IF err /= nil THEN err
                                      ELSE "packet loss: no response"]
        ELSE LET medianRtt == calculateMedian(stats.Rtts).value
             IN  [result EXCEPT !.Success = TRUE, !.Latency = medianRtt,
                                !.LatencyMs = Millis(medianRtt)]

\* the errors a caller hands to NewBurstResult and NewResult
Errors == {nil, "timeout"}

\* a direct call of calculateMedian
CallCalculateMedian ==
    \E rtts \in RttSeqs :
        /\ probeRet' = [op |-> "calculateMedian", rtts |-> rtts,
                        out |-> calculateMedian(rtts)]
        /\ UNCHANGED icmpProbe

\* a direct call of NewBurstResult with recv <= sent
CallNewBurstResult ==
    \E sent \in 0 .. MaxPings, rtts \in RttSeqs, err \in Errors :
        \E recv \in 0 .. sent :
            LET stats == [Rtts |-> rtts, PacketsSent |-> sent, PacketsRecv |-> recv]
            IN  /\ probeRet' = [op |-> "NewBurstResult", stats |-> stats, err |-> err,
                                out |-> NewBurstResult(stats, err)]
                /\ UNCHANGED icmpProbe

\* a direct call of NewResult
CallNewResult ==
    \E latency \in RttValues, success \in BOOLEAN, err \in Errors :
        /\ probeRet' = [op |-> "NewResult", latency |-> latency, success |-> success,
                        err |-> err, out |-> NewResult(latency, success, err)]
        /\ UNCHANGED icmpProbe

\* the errors pinger.RunWithContext returns: the raw socket is refused, or
\* anything else (the socket cannot be made, the network is unreachable)
RunErrors == {"operation not permitted", "network is unreachable"}

\* ICMPProbe.Execute when probing.NewPinger fails
ExecuteNoPinger ==
    /\ probeRet' = [op |-> "Execute", failed |-> TRUE,
                    was |-> icmpProbe.privileged, firstErr |-> nil, runs |-> 0,
                    out |-> NewResult(0, FALSE, "failed to create pinger: lookup failed")]
    /\ UNCHANGED icmpProbe

\* ICMPProbe.Execute when the run fails, and fails again in unprivileged mode
\* if the probe was still in privileged mode
ExecutePingFails ==
    \E firstErr \in RunErrors, lastErr \in RunErrors :
        /\ ~icmpProbe.privileged => lastErr = firstErr
        /\ icmpProbe' = [icmpProbe EXCEPT !.privileged = FALSE]
        /\ probeRet' = [op |-> "Execute", failed |-> TRUE,
                        was |-> icmpProbe.privileged, firstErr |-> firstErr,
                        runs |-> IF icmpProbe.privileged THEN 2 ELSE 1,
                        out |-> NewResult(0, FALSE, "ping failed: " \o lastErr)]

\* ICMPProbe.Execute when a run ends without an error, at once (retried = FALSE)
\* or on the unprivileged retry; the pinger reports what it sent (fewer than
\* Pings when the deadline or a cancellation cuts the burst short) and received
ExecuteRuns ==
    \E retried \in BOOLEAN, sent \in 0 .. icmpProbe.Pings :
        \E recv \in 0 .. sent, firstErr \in RunErrors \cup {nil} :
            \E rtts \in [1 .. recv -> RttValues] :
                LET burstStats == [Rtts |-> rtts, PacketsSent |-> sent,
                                   PacketsRecv |-> recv]
                IN  /\ retried => icmpProbe.privileged
                    /\ retried <=> firstErr /= nil
                    /\ icmpProbe' = [icmpProbe EXCEPT
                                        !.privileged = IF retried THEN FALSE ELSE @]
                    /\ probeRet' = [op |-> "Execute", failed |-> FALSE,
                                    was |-> icmpProbe.privileged, firstErr |-> firstErr,
                                    runs |-> IF retried THEN 2 ELSE 1,
                                    out |-> NewBurstResult(burstStats, nil)]

\* what dialer.DialContext gives on a live context: a failure or a latency
DialFails == -1
DialOutcomes == RttValues \cup {DialFails}

RECURSIVE tcpBurst(_, _, _, _, _)
\* TCPProbe.Execute: the burst loop from iteration i on. The context is cancelled
\* from iteration cancelAt on; the break in the select leaves the select only, so
\* the iteration goes on to packetsSent++ and dialer.DialContext, which fails at
\* once on a cancelled context. dials records, per DialContext call, whether the
\* context was cancelled when the call was made
tcpBurst(i, pings, cancelAt, outcomes, st) ==
    IF i >= pings THEN st
    ELSE LET cancelled == i >= cancelAt
             dialed == [st EXCEPT !.PacketsSent = @ + 1,
                                  !.dials = Append(@, cancelled)]
         IN  IF cancelled \/ outcomes[i + 1] = DialFails
             THEN tcpBurst(i + 1, pings, cancelAt, outcomes, dialed)
             ELSE tcpBurst(i + 1, pings, cancelAt, outcomes,
                           [dialed EXCEPT !.PacketsRecv = @ + 1,
                                          !.Rtts = Append(@, outcomes[i + 1])])

\* TCPProbe.Execute on a probe made by NewTCPProbe(..., pings)
ExecuteTCP ==
    \E pings \in 0 .. MaxPings :
        LET Pings == IF pings < 1 THEN 1 ELSE pings
        IN  \E cancelAt \in 0 .. Pings, outcomes \in [1 .. Pings -> DialOutcomes] :
                LET burstStats == tcpBurst(0, Pings, cancelAt, outcomes,
                                           [Rtts |-> <<>>, PacketsSent |-> 0,
                                            PacketsRecv |-> 0, dials |-> <<>>])
                IN  /\ probeRet' = [op |-> "TCPProbe.Execute", Pings |-> Pings,
                                    cancelAt |-> cancelAt, dials |-> burstStats.dials,
                                    out |-> NewBurstResult(burstStats, nil)]
                    /\ UNCHANGED icmpProbe

\* the caller has read what the call returned; the next call can be made
ResultTaken ==
    /\ probeRet' = NoCall
    /\ UNCHANGED icmpProbe

NextProbe ==
    \/ probeRet = NoCall /\ UNCHANGED <<memVars, collVars, cliVars, srvVars, extVars>>
            /\ CallCalculateMedian
    \/ probeRet = NoCall /\ UNCHANGED <<memVars, collVars, cliVars, srvVars, extVars>>
            /\ CallNewBurstResult
    \/ probeRet = NoCall /\ UNCHANGED <<memVars, collVars, cliVars, srvVars, extVars>>
            /\ CallNewResult
    \/ probeRet = NoCall /\ UNCHANGED <<memVars, collVars, cliVars, srvVars, extVars>>
            /\ ExecuteNoPinger
    \/ probeRet = NoCall /\ UNCHANGED <<memVars, collVars, cliVars, srvVars, extVars>>
            /\ ExecutePingFails
    \/ probeRet = NoCall /\ UNCHANGED <<memVars, collVars, cliVars, srvVars, extVars>>
            /\ ExecuteRuns
    \/ probeRet = NoCall /\ UNCHANGED <<memVars, collVars, cliVars, srvVars, extVars>>
            /\ ExecuteTCP
    \/ probeRet /= NoCall /\ UNCHANGED <<memVars, collVars, cliVars, srvVars, extVars>>
            /\ ResultTaken

InitProbe ==
    /\ bufferSize = 1
    /\ targets = [t \in Names |-> NoBuffer]
    /\ written = [t \in Names |-> <<>>]
    /\ ret = [op |-> "NewMemoryBuffer"]
    /\ NewCollector(TRUE)
    /\ Connect
    /\ StartServer(TRUE)
    /\ \E pings \in 0 .. MaxPings : NewICMPProbe(pings)
    /\ NoDirectCalls

SpecProbe == InitProbe /\ [][NextProbe]_vars

-----------------------------------------------------------------------------
(* internal/config: Validate and validateRetention *)

\* a string is the sequence of its characters
Digits == {"0", "1", "2", "3", "4", "5", "6", "7", "8", "9"}
Units == {"s", "m", "h", "d", "w", "y"}

\* float64 NaN: it is neither less nor greater than anything
NaN == [n |-> 0, d |-> 0]
IsNaN(x) == x.d = 0
F64Less(x, y) == ~IsNaN(x) /\ ~IsNaN(y) /\ RatLess(x, y)

\* a nil error of internal/config; any other error tells what is wrong, and for
\* which target (counted from 0) or archive (counted from 1)
NoError == [kind |-> "nil", at |-> 0]
Errorf(kind, at) == [kind |-> kind, at |-> at]

RECURSIVE Split(_, _)
\* strings.Split(s, sep) for a separator of one character
Split(s, sep) ==
    IF \A i \in 1 .. Len(s) : s[i] /= sep THEN <<s>>
    ELSE LET i == CHOOSE j \in 1 .. Len(s) :
                      s[j] = sep /\ \A k \in 1 .. j - 1 : s[k] /= sep
         IN  <<SubSeq(s, 1, i - 1)>> \o Split(SubSeq(s, i + 1, Len(s)), sep)

RECURSIVE TrimLeft(_)
TrimLeft(s) == IF s /= <<>> /\ Head(s) = " " THEN TrimLeft(Tail(s)) ELSE s

RECURSIVE TrimRight(_)
TrimRight(s) ==
    IF s /= <<>> /\ s[Len(s)] = " " THEN TrimRight(SubSeq(s, 1, Len(s) - 1)) ELSE s

\* strings.TrimSpace
TrimSpace(s) == TrimRight(TrimLeft(s))

\* durationPattern.MatchString for ^(\d+)(s|m|h|d|w|y)$, with any unit
durationPatternAnyUnit(s) ==
    /\ Len(s) >= 2
    /\ \A i \in 1 .. Len(s) - 1 : s[i] \in Digits

\* durationPattern.MatchString for ^(\d+)(s|m|h|d|w|y)$
durationPattern(s) ==
    /\ Len(s) >= 2
    /\ \A i \in 1 .. Len(s) - 1 : s[i] \in Digits
    /\ s[Len(s)] \in Units

RECURSIVE CheckArchives(_, _)
\* the loop of validateRetention from the i-th archive on
CheckArchives(archives, i) ==
    IF i > Len(archives) THEN NoError
    ELSE LET entry == TrimSpace(archives[i])
             parts == Split(entry, ":")
         IN  IF Len(parts) /= 2 THEN Errorf("expected format 'resolution:duration'", i)
             ELSE IF ~durationPattern(TrimSpace(parts[1]))
                  THEN Errorf("invalid resolution", i)
             ELSE IF ~durationPattern(TrimSpace(parts[2]))
                  THEN Errorf("invalid duration", i)
             ELSE CheckArchives(archives, i + 1)

\* validateRetention
validateRetention(retention) ==
    IF retention = <<>> THEN Errorf("retention string cannot be empty", 0)
    ELSE CheckArchives(Split(retention, ","), 1)

RECURSIVE CheckTargets(_, _)
\* the loop of Validate over c.Targets from index i on (indices count from 0)
CheckTargets(ts, i) ==
    IF i >= Len(ts) THEN NoError
    ELSE LET target == ts[i + 1]
         IN  IF target.Name = "" THEN Errorf("name is required", i)
             ELSE IF target.Host = "" THEN Errorf("host is required", i)
             ELSE IF target.Probe /= "icmp" /\ target.Probe /= "tcp"
                  THEN Errorf("probe must be 'icmp' or 'tcp'", i)
             ELSE IF target.Probe = "tcp" /\ target.Port = 0
                  THEN Errorf("port is required for TCP probe", i)
             ELSE IF target.Port < 0 \/ target.Port > 65535
                  THEN Errorf("port must be between 0 and 65535", i)
             ELSE CheckTargets(ts, i + 1)

validAggregations == {"average", "min", "max", "last"}

RECURSIVE CollectorProbes(_)
\* the probes map NewCollector builds from cfg.Targets: a later target takes
\* the place of an earlier one of the same name
CollectorProbes(ts) ==
    IF ts = <<>> THEN <<>>
    ELSE LET target == ts[Len(ts)]
             before == CollectorProbes(SubSeq(ts, 1, Len(ts) - 1))
         IN  IF target.Probe \in {"icmp", "tcp"}
             THEN [n \in DOMAIN before \cup {target.Name} |->
                      IF n = target.Name THEN target ELSE before[n]]
             ELSE before

\* Config.Validate
Validate(c) ==
    IF Len(c.Targets) = 0 THEN Errorf("at least one target is required", 0)
    ELSE IF CheckTargets(c.Targets, 0) /= NoError THEN CheckTargets(c.Targets, 0)
    ELSE IF c.Global.Interval <= 0 THEN Errorf("global.interval must be positive", 0)
    ELSE IF c.Global.Timeout <= 0 THEN Errorf("global.timeout must be positive", 0)
    ELSE IF c.Global.Timeout >= c.Global.Interval
         THEN Errorf("global.timeout must be less than global.interval", 0)
    ELSE IF c.Global.Pings < 1 \/ c.Global.Pings > 100
         THEN Errorf("global.pings must be between 1 and 100", 0)
    ELSE IF F64Less(c.Storage.XFF, RatInt(0)) \/ F64Less(RatInt(1), c.Storage.XFF)
         THEN Errorf("storage.xff must be between 0 and 1", 0)
    ELSE IF c.Storage.Aggregation \notin validAggregations
         THEN Errorf("storage.aggregation must be one of: average, min, max, last", 0)
    ELSE IF validateRetention(c.Storage.Retention) /= NoError
         THEN Errorf("storage.retention", validateRetention(c.Storage.Retention).at)
    ELSE NoError

\* the targets a configuration is put together from: a good ICMP and a good
\* TCP target, one that takes the first one's name, and one for each way a
\* target can be wrong
TargetPool ==
    { [Name |-> "a", Host |-> "h1", Port |-> 0, Probe |-> "icmp"],
      [Name |-> "b", Host |-> "h2", Port |-> 65535, Probe |-> "tcp"],
      [Name |-> "a", Host |-> "h3", Port |-> 80, Probe |-> "tcp"],
      [Name |-> "", Host |-> "h1", Port |-> 0, Probe |-> "icmp"],
      [Name |-> "c", Host |-> "", Port |-> 0, Probe |-> "icmp"],
      [Name |-> "c", Host |-> "h1", Port |-> 0, Probe |-> "udp"],
      [Name |-> "c", Host |-> "h1", Port |-> 0, Probe |-> "tcp"],
      [Name |-> "c", Host |-> "h1", Port |-> 65536, Probe |-> "tcp"],
      [Name |-> "c", Host |-> "h1", Port |-> -1, Probe |-> "icmp"] }

TargetLists == UNION {[1 .. n -> TargetPool] : n \in 0 .. MaxTargets}

\* interval and timeout in seconds, and pings
Globals ==
    [Interval : {0, 10}, Timeout : {0, 5, 10}, Pings : {0, 1, 100, 101}]

\* the retention strings "10s:1d" and "10s"
GoodRetention == <<"1", "0", "s", ":", "1", "d">>
BadRetention == <<"1", "0", "s">>

Storages ==
    [Retention : {GoodRetention, BadRetention},
     Aggregation : validAggregations \cup {"sum"},
     XFF : {Rat(-1, 2), RatInt(0), RatInt(1), Rat(3, 2), NaN}]

\* the characters the retention strings are written with
RetentionChars == {"1", "s", "x", ":", ",", " "}

\* the archives whole retention strings are put together from:
\* "1s:1d", " 1s:1d ", "1s : 1d", "1s", "1s:1d:x", "x:1d", "1s:x", "", "1w:1y"
ArchivePool ==
    { <<"1", "s", ":", "1", "d">>,
      <<" ", "1", "s", ":", "1", "d", " ">>,
      <<"1", "s", " ", ":", " ", "1", "d">>,
      <<"1", "s">>,
      <<"1", "s", ":", "1", "d", ":", "x">>,
      <<"x", ":", "1", "d">>,
      <<"1", "s", ":", "x">>,
      <<>>,
      <<"1", "w", ":", "1", "y">> }

RECURSIVE Join(_, _)
\* strings.Join(parts, sep)
Join(parts, sep) ==
    IF parts = <<>> THEN <<>>
    ELSE IF Len(parts) = 1 THEN parts[1]
    ELSE parts[1] \o <<sep>> \o Join(Tail(parts), sep)

\* the retention strings validateRetention is tried on
RetentionStrings ==
    UNION {[1 .. n -> RetentionChars] : n \in 0 .. MaxRetentionLen}
        \cup {Join(as, ",") : as \in UNION {[1 .. n -> ArchivePool] : n \in 1 .. MaxArchives}}

\* a call of Config.Validate, as Load makes it
CallValidate ==
    \E c \in [Targets : TargetLists, Global : Globals, Storage : Storages] :
        cfgRet' = [op |-> "Validate", c |-> c, err |-> Validate(c)]

\* a call of validateRetention
CallValidateRetention ==
    \E retention \in RetentionStrings :
        cfgRet' = [op |-> "validateRetention", retention |-> retention,
                   err |-> validateRetention(retention)]

\* the caller has read what the call returned
ConfigReturned == cfgRet' = [op |-> "none"]

NextConfig ==
    \/ NoConfigCall /\ UNCHANGED nonCfgVars /\ CallValidate
    \/ NoConfigCall /\ UNCHANGED nonCfgVars /\ CallValidateRetention
    \/ ~NoConfigCall /\ UNCHANGED nonCfgVars /\ ConfigReturned

\* every other package as it is before it is used
CoreIdle ==
    /\ bufferSize = 1
    /\ targets = [t \in Names |-> NoBuffer]
    /\ written = [t \in Names |-> <<>>]
    /\ ret = [op |-> "NewMemoryBuffer"]
    /\ NewCollector(TRUE)
    /\ Connect
    /\ StartServer(TRUE)
    /\ NewICMPProbe(1)

InitConfig == CoreIdle /\ NoDirectCalls

SpecConfig == InitConfig /\ [][NextConfig]_vars

-----------------------------------------------------------------------------
(* internal/storage: the archive's retention, step and file name *)

\* a time.Duration is a whole number of seconds here: the retention strings
\* that are tried carry no sign, no fraction and no unit below the second
DigitValue(ch) ==
    CASE ch = "0" -> 0 [] ch = "1" -> 1 [] ch = "2" -> 2 [] ch = "3" -> 3
      [] ch = "4" -> 4 [] ch = "5" -> 5 [] ch = "6" -> 6 [] ch = "7" -> 7
      [] ch = "8" -> 8 [] ch = "9" -> 9

RECURSIVE NumberOf(_)
\* the decimal number a sequence of digits writes (0 for none)
NumberOf(ds) ==
    IF ds = <<>> THEN 0
    ELSE 10 * NumberOf(SubSeq(ds, 1, Len(ds) - 1)) + DigitValue(ds[Len(ds)])

\* how many of the first characters of s are digits
LeadingDigits(s) ==
    Cardinality({i \in 1 .. Len(s) : \A j \in 1 .. i : s[j] \in Digits})

\* how many of the first characters of s are not digits
LeadingLetters(s) ==
    Cardinality({i \in 1 .. Len(s) : \A j \in 1 .. i : s[j] \notin Digits})

\* time's unitMap, in seconds
UnitSeconds(unit) ==
    CASE unit = <<"s">> -> 1 [] unit = <<"m">> -> 60 [] unit = <<"h">> -> 3600
      [] OTHER -> 0

\* the result of a parse: a duration, or an error
Parsed(d) == [err |-> NoError, d |-> d]
ParseError(kind) == [err |-> Errorf(kind, 0), d |-> 0]

RECURSIVE ParseGroups(_, _)
\* the loop of time.ParseDuration: a number, then a unit that runs up to the
\* next digit, again and again; d is the sum so far
ParseGroups(s, d) ==
    IF s = <<>> THEN Parsed(d)
    ELSE LET n == LeadingDigits(s)
             rest == SubSeq(s, n + 1, Len(s))
             u == LeadingLetters(rest)
             unit == SubSeq(rest, 1, u)
         IN  IF n = 0 THEN ParseError("time: invalid duration")
             ELSE IF u = 0 THEN ParseError("time: missing unit in duration")
             ELSE IF UnitSeconds(unit) = 0
                  THEN ParseError("time: unknown unit in duration")
             ELSE ParseGroups(SubSeq(rest, u + 1, Len(rest)),
                              d + NumberOf(SubSeq(s, 1, n)) * UnitSeconds(unit))

\* time.ParseDuration
ParseDuration(s) ==
    IF s = <<"0">> THEN Parsed(0)
    ELSE IF s = <<>> THEN ParseError("time: invalid duration")
    ELSE ParseGroups(s, 0)

\* parseDuration: fmt.Sscanf with %d skips leading spaces, reads the digits
\* and leaves what follows them unread
parseDuration(str) ==
    LET s == TrimSpace(str)
    IN  IF Len(s) = 0 THEN ParseError("empty duration")
        ELSE IF s[Len(s)] = "d"
             THEN LET numStr == TrimLeft(SubSeq(s, 1, Len(s) - 1))
                      n == LeadingDigits(numStr)
                  IN  IF n = 0 THEN ParseError("invalid day duration")
                      ELSE Parsed(NumberOf(SubSeq(numStr, 1, n)) * 24 * 3600)
        ELSE ParseDuration(s)

\* what parseRRAs comes to: the archives, an error, or a run-time panic
RRAs(rras) == [rras |-> rras, err |-> NoError, panic |-> FALSE]
RRAError(kind) == [rras |-> <<>>, err |-> Errorf(kind, 0), panic |-> FALSE]
RRAPanic == [rras |-> <<>>, err |-> NoError, panic |-> TRUE]

RECURSIVE ParseParts(_, _, _)
\* the loop of parseRRAs over the parts that are left, rras being the
\* archives appended so far
ParseParts(parts, baseStep, rras) ==
    IF parts = <<>>
    THEN IF Len(rras) = 0 THEN RRAError("no valid retentions found") ELSE RRAs(rras)
    ELSE LET part == TrimSpace(Head(parts))
             subparts == Split(part, ":")
             resolution == parseDuration(subparts[1])
             duration == parseDuration(subparts[2])
             steps == resolution.d \div baseStep
             rows == duration.d \div resolution.d
         IN  IF part = <<>> THEN ParseParts(Tail(parts), baseStep, rras)
             ELSE IF Len(subparts) /= 2 THEN RRAError("invalid retention format")
             ELSE IF resolution.err /= NoError THEN RRAError("invalid resolution")
             ELSE IF duration.err /= NoError THEN RRAError("invalid duration")
             ELSE IF resolution.d = 0 THEN RRAPanic
             ELSE ParseParts(Tail(parts), baseStep,
                             Append(rras, [steps |-> IF steps < 1 THEN 1 ELSE steps,
                                           rows |-> IF rows < 1 THEN 1 ELSE rows]))

\* parseRRAs; the division duration / resolution panics for a resolution of 0
parseRRAs(retentionStr, baseStep) ==
    ParseParts(Split(retentionStr, ","), baseStep, <<>>)

\* NewRRDStorage, which fails when parseRRAs does (an error or its panic)
NewRRDStorage(step, retentionStr, xff, aggregation) ==
    LET parsed == parseRRAs(retentionStr, step)
    IN  IF parsed.panic \/ parsed.err /= NoError THEN NoStorage
        ELSE [ok |-> TRUE, step |-> step, heartbeat |-> step * 3, xff |-> xff,
              aggregation |-> IF aggregation = "" THEN "AVERAGE"
                              ELSE IF aggregation = "average" THEN "AVERAGE"
                              ELSE IF aggregation = "min" THEN "MIN"
                              ELSE IF aggregation = "max" THEN "MAX"
                              ELSE "LAST",
              rras |-> parsed.rras]

Day == 24 * 3600

\* RRDStorage.calculateStep, in seconds
calculateStep(s, duration) ==
    IF duration <= Day THEN s.step
    ELSE IF duration <= 7 * Day THEN 60
    ELSE 3600

\* unsafeFilenameChars, as far as the names that are tried have them
unsafeFilenameChars == {"<", ">", ":", "\"", "/", "\\", "|", "?", "*"}

\* strings.ToLower on the letters of the names that are tried
ToLower(ch) == IF ch = "B" THEN "b" ELSE ch

RECURSIVE CollapseUnderscores(_)
\* the replacement of every run _+ by one underscore, computed on the two
\* halves of the string: a run that spans the cut is joined into one
CollapseUnderscores(s) ==
    IF Len(s) < 2 THEN s
    ELSE LET half == Len(s) \div 2
             left == CollapseUnderscores(SubSeq(s, 1, half))
             right == CollapseUnderscores(SubSeq(s, half + 1, Len(s)))
         IN  IF left[Len(left)] = "_" /\ right[1] = "_" THEN left \o Tail(right)
             ELSE left \o right

RECURSIVE TrimUnderscores(_)
\* strings.Trim(safe, "_")
TrimUnderscores(s) ==
    IF s /= <<>> /\ Head(s) = "_" THEN TrimUnderscores(Tail(s))
    ELSE IF s /= <<>> /\ s[Len(s)] = "_" THEN TrimUnderscores(SubSeq(s, 1, Len(s) - 1))
    ELSE s

StemLimit == 200

\* RRDStorage.getFilename without the data directory: the stem and the file
\* name; every character of the names that are tried is one byte
getFilename(targetName) ==
    LET spaced == [i \in 1 .. Len(targetName) |->
                      IF targetName[i] = " " THEN "_" ELSE targetName[i]]
        replaced == [i \in 1 .. Len(spaced) |->
                        IF spaced[i] \in unsafeFilenameChars THEN "_" ELSE spaced[i]]
        lowered == [i \in 1 .. Len(replaced) |-> ToLower(replaced[i])]
        trimmed == TrimUnderscores(CollapseUnderscores(lowered))
        cut == IF Len(trimmed) > StemLimit THEN SubSeq(trimmed, 1, StemLimit)
               ELSE trimmed
        safe == IF cut = <<>> THEN <<"u", "n", "n", "a", "m", "e", "d">> ELSE cut
    IN  [stem |-> safe, name |-> safe \o <<".", "r", "r", "d">>]

\* the base steps and the retention strings a storage is made with:
\* "10s:1d", "10s:1d,1m:7d", "10s:1d,1m:7d,1h:90d", "0s:1d", "10s:1w"
BaseSteps == {10, 60}

StorageRetentions ==
    { <<"1", "0", "s", ":", "1", "d">>,
      <<"1", "0", "s", ":", "1", "d", ",", "1", "m", ":", "7", "d">>,
      <<"1", "0", "s", ":", "1", "d", ",", "1", "m", ":", "7", "d", ",",
        "1", "h", ":", "9", "0", "d">>,
      <<"0", "s", ":", "1", "d">>,
      <<"1", "0", "s", ":", "1", "w">> }

\* the characters the retention strings given to parseRRAs are written with
RRAChars == {"1", "0", "s", "d", ":", ",", " "}

\* the archives longer retention strings are put together from:
\* "10s:1d", " 1m:7d", "1h:90d", "", "10s", "10s:1d:1d", "x:1d", "10s:1w", "0s:1d"
RRAPool ==
    { <<"1", "0", "s", ":", "1", "d">>,
      <<" ", "1", "m", ":", "7", "d">>,
      <<"1", "h", ":", "9", "0", "d">>,
      <<>>,
      <<"1", "0", "s">>,
      <<"1", "0", "s", ":", "1", "d", ":", "1", "d">>,
      <<"x", ":", "1", "d">>,
      <<"1", "0", "s", ":", "1", "w">>,
      <<"0", "s", ":", "1", "d">> }

RRAStrings ==
    UNION {[1 .. n -> RRAChars] : n \in 0 .. MaxRetentionLen}
        \cup {Join(as, ",") : as \in UNION {[1 .. n -> RRAPool] : n \in 1 .. MaxArchives}}

\* the query spans, in seconds: from before to, up to 30 days
Spans == {-1, 0, 1800, Day - 1, Day, Day + 1, 2 * Day, 7 * Day, 7 * Day + 1, 30 * Day}

\* the characters target names are written with, and a long run of letters
NameChars == {"a", "B", "7", "_", " ", "/", "-"}
ShortNames == UNION {[1 .. n -> NameChars] : n \in 0 .. MaxNameLen}
LongRun == [i \in 1 .. StemLimit - 2 |-> "a"]
TargetNames == ShortNames \cup {LongRun \o n : n \in ShortNames}

\* NewRRDStorage makes the storage; it stays nil when the retention is refused
CreateStorage ==
    \E step \in BaseSteps, retentionStr \in StorageRetentions :
        /\ rrdStorage' = NewRRDStorage(step, retentionStr, Rat(1, 2), "average")
        /\ rrdRet' = [op |-> "NewRRDStorage", retentionStr |-> retentionStr,
                      baseStep |-> step]

\* a call of parseRRAs, as NewRRDStorage makes it before there is a storage
CallParseRRAs ==
    \E retentionStr \in RRAStrings, baseStep \in BaseSteps :
        /\ rrdRet' = [op |-> "parseRRAs", retentionStr |-> retentionStr,
                      baseStep |-> baseStep, out |-> parseRRAs(retentionStr, baseStep)]
        /\ UNCHANGED rrdStorage

\* a call of s.calculateStep, as Fetch makes it
CallCalculateStep ==
    \E duration \in Spans :
        /\ rrdRet' = [op |-> "calculateStep", duration |-> duration,
                      out |-> calculateStep(rrdStorage, duration)]
        /\ UNCHANGED rrdStorage

\* a call of s.getFilename, as Write and Fetch make it
CallGetFilename ==
    \E targetName \in TargetNames :
        /\ rrdRet' = [op |-> "getFilename", targetName |-> targetName,
                      out |-> getFilename(targetName)]
        /\ UNCHANGED rrdStorage

\* the caller has read what the call returned
StorageReturned ==
    /\ rrdRet' = [op |-> "none"]
    /\ UNCHANGED rrdStorage

NextRRD ==
    \/ rrdRet.op = "none" /\ ~rrdStorage.ok /\ UNCHANGED nonRrdVars
            /\ CreateStorage
    \/ rrdRet.op = "none" /\ ~rrdStorage.ok /\ UNCHANGED nonRrdVars
            /\ CallParseRRAs
    \/ rrdRet.op = "none" /\ rrdStorage.ok /\ UNCHANGED nonRrdVars
            /\ CallCalculateStep
    \/ rrdRet.op = "none" /\ rrdStorage.ok /\ UNCHANGED nonRrdVars
            /\ CallGetFilename
    \/ rrdRet.op /= "none" /\ UNCHANGED nonRrdVars /\ StorageReturned

InitRRD == CoreIdle /\ NoDirectCalls

SpecRRD == InitRRD /\ [][NextRRD]_vars

-----------------------------------------------------------------------------
(* internal/storage/memory.go: percentile in floating point *)

\* x * 2^k
Scaled(x, k) == IF k >= 0 THEN Rat(x.n * 2^k, x.d) ELSE Rat(x.n, x.d * 2^(-k))

RECURSIVE Exponent(_, _)
\* the k that brings a positive x into [2^(MantissaBits-1), 2^MantissaBits)
Exponent(x, k) ==
    IF RatLess(Scaled(x, k), RatInt(2^(MantissaBits - 1))) THEN Exponent(x, k + 1)
    ELSE IF ~RatLess(Scaled(x, k), RatInt(2^MantissaBits)) THEN Exponent(x, k - 1)
    ELSE k

\* round to nearest integer, ties to even, of a non-negative x
RoundHalfEven(x) ==
    LET whole == x.n \div x.d
        twice == 2 * (x.n - whole * x.d)
    IN  IF twice > x.d \/ (twice = x.d /\ whole % 2 = 1) THEN whole + 1 ELSE whole

\* the float64 nearest to x: a mantissa of MantissaBits bits, round to nearest
\* even, as every float64 operation of the build rounds its exact result
Float64(x) ==
    IF x.n = 0 THEN x
    ELSE LET a == [n |-> Abs(x.n), d |-> x.d]
             k == Exponent(a, 0)
             m == RoundHalfEven(Scaled(a, k))
             r == Scaled(RatInt(m), -k)
         IN  IF x.n < 0 THEN [n |-> -r.n, d |-> r.d] ELSE r

\* percentile(sorted, p) with the rounding of each of its float64 operations
percentileFloat64(sorted, p) ==
    IF Len(sorted) = 0 THEN RatInt(0)
    ELSE IF Len(sorted) = 1 THEN sorted[1]
    ELSE LET idx == Float64(RatMul(Float64(RatDivInt(p, 100)), RatInt(Len(sorted) - 1)))
             lower == RatFloor(idx)
             upper == RatCeil(idx)
             weight == Float64(RatSub(idx, RatInt(lower)))
         IN  IF lower = upper THEN sorted[lower + 1]
             ELSE Float64(RatAdd(
                     Float64(RatMul(sorted[lower + 1],
                                    Float64(RatSub(RatInt(1), weight)))),
                     Float64(RatMul(sorted[upper + 1], weight))))

\* the latencies (ms) and the percentiles that are tried; every one of them is
\* a float64 of the model
LatenciesMs == {RatInt(1), Rat(3, 2), RatInt(3), RatInt(5), RatInt(7)}
Percents == 0 .. 100
SortedLists ==
    {s \in UNION {[1 .. k -> LatenciesMs] : k \in 1 .. MaxSorted} :
        \A i \in 1 .. Len(s) - 1 : ~RatLess(s[i + 1], s[i])}

\* a call of percentile on an ascending list, as calculateStats makes it
CallPercentile ==
    \E sorted \in SortedLists, p \in Percents :
        /\ rrdRet' = [op |-> "percentile", sorted |-> sorted, p |-> p,
                      out |-> percentileFloat64(sorted, RatInt(p))]
        /\ UNCHANGED rrdStorage

NextPercentile ==
    \/ rrdRet.op = "none" /\ UNCHANGED nonRrdVars /\ CallPercentile
    \/ rrdRet.op /= "none" /\ UNCHANGED nonRrdVars /\ StorageReturned

SpecPercentile == InitRRD /\ [][NextPercentile]_vars

-----------------------------------------------------------------------------
(* The WebSocket hub: Hub.Run, the clients' pumps and their subscriptions *)

WsIds == 1 .. MaxWsClients
WsTargets == {"a", "b"}

\* the target lists of the client messages that are tried
WsLists == {<<"a">>, <<"b">>, <<"all">>, <<"all", "a">>, <<"a", "all">>, <<"a", "b">>}

\* ClientMessage: subscribe, unsubscribe, and a type the server does not know
ClientMessages ==
    [Type : {"subscribe", "unsubscribe"}, Targets : WsLists]
        \cup {[Type |-> "ping", Targets |-> <<>>]}

\* NewHub, with Run in its select
NewHub ==
    [made |-> TRUE, clients |-> {}, broadcast |-> <<>>, done |-> FALSE,
     run |-> "select", panic |-> FALSE, reads |-> 0, results |-> 0]

\* no connection yet
NoClient == [conn |-> "none"]

\* the Client ServeWebSocket makes, with its two pumps started; log is the
\* history of the subscription messages handled and the results queued for it
NewClient ==
    [conn |-> "open", send |-> <<>>, closed |-> FALSE, targets |-> {},
     allTargets |-> FALSE, readPump |-> "reading", writePump |-> "running",
     log |-> <<>>]

\* Client.isSubscribed
isSubscribed(c, target) == c.allTargets \/ target \in c.targets

RECURSIVE subscribe(_, _)
\* Client.subscribe: "all" sets allTargets and ends the loop
subscribe(c, ts) ==
    IF ts = <<>> THEN c
    ELSE IF Head(ts) = "all" THEN [c EXCEPT !.allTargets = TRUE]
    ELSE subscribe([c EXCEPT !.targets = @ \cup {Head(ts)}], Tail(ts))

RECURSIVE unsubscribe(_, _)
\* Client.unsubscribe: "all" clears everything and ends the loop, a name is
\* deleted from the map only
unsubscribe(c, ts) ==
    IF ts = <<>> THEN c
    ELSE IF Head(ts) = "all" THEN [c EXCEPT !.allTargets = FALSE, !.targets = {}]
    ELSE unsubscribe([c EXCEPT !.targets = @ \ {Head(ts)}], Tail(ts))

\* an entry of a client's log
Logged(ev, ts) == [ev |-> ev, targets |-> ts]

\* ServeWebSocket: the client is made and handed to Run over h.register
ServeWebSocket(id) ==
    /\ hub.run = "select"
    /\ wsClients[id].conn = "none"
    /\ wsClients' = [wsClients EXCEPT ![id] = NewClient]
    /\ hub' = [hub EXCEPT !.clients = @ \cup {id}]

\* Client.sendError: a send that does not wait; on a closed channel it panics
sendError(c) ==
    IF c.closed THEN c
    ELSE IF Len(c.send) < WsSendBuffer
    THEN [c EXCEPT !.send = Append(@, [Type |-> "error", Target |-> ""])]
    ELSE c

\* readPump reads one client message and handles it
ReadMessage(id, msg) ==
    /\ ~hub.panic
    /\ wsClients[id].conn = "open"
    /\ wsClients[id].readPump = "reading"
    /\ hub.reads < MaxClientMessages
    /\ LET c == wsClients[id]
           handled == Logged(msg.Type, msg.Targets)
       IN  /\ wsClients' = [wsClients EXCEPT ![id] =
                 IF msg.Type = "subscribe"
                 THEN [subscribe(c, msg.Targets) EXCEPT !.log = Append(@, handled)]
                 ELSE IF msg.Type = "unsubscribe"
                 THEN [unsubscribe(c, msg.Targets) EXCEPT !.log = Append(@, handled)]
                 ELSE sendError(c)]
           /\ hub' = [hub EXCEPT !.reads = @ + 1,
                                 !.panic = msg.Type \notin {"subscribe", "unsubscribe"}
                                             /\ c.closed]

\* ReadMessage fails (the peer went away or the connection was closed):
\* readPump leaves its loop and offers itself on h.unregister
ReadFails(id) ==
    /\ ~hub.panic
    /\ wsClients[id].conn /= "none"
    /\ wsClients[id].readPump = "reading"
    /\ wsClients' = [wsClients EXCEPT ![id].readPump = "unregistering"]
    /\ UNCHANGED hub

\* Run takes a client from h.unregister
HubUnregister(id) ==
    /\ ~hub.panic
    /\ hub.run = "select"
    /\ wsClients[id].conn /= "none"
    /\ wsClients[id].readPump = "unregistering"
    /\ wsClients' = [wsClients EXCEPT ![id] =
          [@ EXCEPT !.readPump = "done", !.conn = "closed",
                    !.closed = @ \/ id \in hub.clients]]
    /\ hub' = [hub EXCEPT !.clients = @ \ {id}]

\* listenCollector puts a probe result on h.broadcast
ListenCollector(target) ==
    /\ ~hub.panic
    /\ hub.made
    /\ hub.results < MaxProbeResults
    /\ hub' = [hub EXCEPT !.results = @ + 1,
                          !.broadcast = Append(@, [Type |-> "probe_result",
                                                   Target |-> target])]
    /\ UNCHANGED wsClients

\* the broadcast case of Run for one client: skipped when it is not
\* subscribed, queued when its channel has room, dropped otherwise
Deliver(c, message) ==
    IF ~isSubscribed(c, message.Target) THEN c
    ELSE IF Len(c.send) < WsSendBuffer
    THEN [c EXCEPT !.send = Append(@, message),
                   !.log = Append(@, Logged("sent", <<message.Target>>))]
    ELSE [c EXCEPT !.closed = TRUE]

\* Run takes a message from h.broadcast and goes through h.clients
HubBroadcast ==
    /\ ~hub.panic
    /\ hub.run = "select"
    /\ hub.broadcast /= <<>>
    /\ LET message == Head(hub.broadcast)
           after == [id \in WsIds |->
                        IF id \in hub.clients THEN Deliver(wsClients[id], message)
                        ELSE wsClients[id]]
       IN  /\ wsClients' = after
           /\ hub' = [hub EXCEPT !.broadcast = Tail(@),
                                 !.clients = {id \in @ : ~after[id].closed}]

\* writePump writes the next message of c.send to the connection, or leaves
\* and closes the connection when the channel is closed
WritePump(id) ==
    /\ ~hub.panic
    /\ wsClients[id].conn /= "none"
    /\ wsClients[id].writePump = "running"
    /\ wsClients[id].send /= <<>> \/ wsClients[id].closed
    /\ wsClients' = [wsClients EXCEPT ![id] =
          IF @.send /= <<>> THEN [@ EXCEPT !.send = Tail(@)]
          ELSE [@ EXCEPT !.writePump = "done", !.conn = "closed"]]
    /\ UNCHANGED hub

\* Hub.Stop
HubStop ==
    /\ ~hub.panic
    /\ hub.made
    /\ ~hub.done
    /\ hub' = [hub EXCEPT !.done = TRUE]
    /\ UNCHANGED wsClients

\* the done case of Run: every client's channel is closed and Run returns
HubShutdown ==
    /\ ~hub.panic
    /\ hub.run = "select"
    /\ hub.done
    /\ wsClients' = [id \in WsIds |->
          IF id \in hub.clients THEN [wsClients[id] EXCEPT !.closed = TRUE]
          ELSE wsClients[id]]
    /\ hub' = [hub EXCEPT !.clients = {}, !.run = "stopped"]

NextHub ==
    \/ UNCHANGED nonHubVars /\ \E id \in WsIds : ServeWebSocket(id)
    \/ UNCHANGED nonHubVars /\ \E id \in WsIds, msg \in ClientMessages : ReadMessage(id, msg)
    \/ UNCHANGED nonHubVars /\ \E id \in WsIds : ReadFails(id)
    \/ UNCHANGED nonHubVars /\ \E id \in WsIds : HubUnregister(id)
    \/ UNCHANGED nonHubVars /\ \E target \in WsTargets : ListenCollector(target)
    \/ UNCHANGED nonHubVars /\ HubBroadcast
    \/ UNCHANGED nonHubVars /\ \E id \in WsIds : WritePump(id)
    \/ UNCHANGED nonHubVars /\ HubStop
    \/ UNCHANGED nonHubVars /\ HubShutdown

InitHub ==
    /\ CoreIdle
    /\ NoConfigCall
    /\ NoStorageCall
    /\ NoHistoryCall
    /\ NoWriters
    /\ hub = NewHub
    /\ wsClients = [id \in WsIds |-> NoClient]

SpecHub == InitHub /\ [][NextHub]_vars

-----------------------------------------------------------------------------
(* The get_history hop: Server.handleRequest, the JSON line, Client.GetHistory *)

DigitChar(d) == <<"0", "1", "2", "3", "4", "5", "6", "7", "8", "9">>[d + 1]

RECURSIVE Itoa(_)
\* the decimal digits of a natural number
Itoa(n) == IF n < 10 THEN <<DigitChar(n)>> ELSE Itoa(n \div 10) \o <<DigitChar(n % 10)>>

RECURSIVE FractionDigits(_, _)
\* the decimal digits of num / den < 1; it ends for the float64 values, whose
\* denominators are powers of two
FractionDigits(num, den) ==
    IF num = 0 THEN <<>>
    ELSE <<DigitChar((10 * num) \div den)>> \o FractionDigits((10 * num) % den, den)

\* encoding/json on a float64 that is not NaN: the shortest decimal that reads
\* back as the same float64, which for the values tried is the exact decimal
FormatFloat(x) ==
    LET whole == Abs(x.n) \div x.d
        rest == Abs(x.n) % x.d
    IN  (IF x.n < 0 THEN <<"-">> ELSE <<>>)
            \o Itoa(whole)
            \o (IF rest = 0 THEN <<>> ELSE <<".">> \o FractionDigits(rest, x.d))

\* encoding/json reading a number into a float64
ParseFloat(text) ==
    LET negative == text[1] = "-"
        body == IF negative THEN Tail(text) ELSE text
        dots == {i \in 1 .. Len(body) : body[i] = "."}
        dot == IF dots = {} THEN Len(body) + 1 ELSE CHOOSE i \in dots : TRUE
        whole == SubSeq(body, 1, dot - 1)
        fraction == SubSeq(body, dot + 1, Len(body))
        value == Rat(NumberOf(whole) * 10^Len(fraction) + NumberOf(fraction),
                     10^Len(fraction))
    IN  IF negative THEN [n |-> -value.n, d |-> value.d] ELSE value

\* a JSON null, and a JSON number with its text
JSONNull == [null |-> TRUE, text |-> <<>>]
JSONNumber(text) == [null |-> FALSE, text |-> text]

\* handleRequest: a *float64 that is nil for NaN, as encoding/json writes it
EncodeNumber(x) == IF ~IsNaN(x) THEN JSONNumber(FormatFloat(x)) ELSE JSONNull

\* handleRequest: the IPCDataPoint of a DataPoint on the line
EncodePoint(p) ==
    [timestamp |-> p.Timestamp, value |-> EncodeNumber(p.Value),
     loss |-> EncodeNumber(p.Loss)]

\* GetHistory with a null read as zero, which is what a float64 field would hold
DecodeNumberZeroForNull(token) ==
    IF ~token.null THEN ParseFloat(token.text) ELSE RatInt(0)

\* GetHistory: pmap[...].(float64), and NaN when the assertion fails
DecodeNumber(token) ==
    IF ~token.null THEN ParseFloat(token.text) ELSE NaN

\* GetHistory: the DataPoint of one element of data_points
DecodePoint(pmap) ==
    [Timestamp |-> pmap.timestamp, Value |-> DecodeNumber(pmap.value),
     Loss |-> DecodeNumber(pmap.loss)]

\* the datapoints Collector.FetchHistory returns: latencies in ms or NaN, loss
\* ratios or NaN
HistoryValues == {NaN, RatInt(0), Rat(1, 2), Rat(49, 4), RatInt(1500)}
HistoryLosses == {NaN, RatInt(0), Rat(1, 4), RatInt(1)}
DataPoints == [Timestamp : {10}, Value : HistoryValues, Loss : HistoryLosses]
PointLists == UNION {[1 .. k -> DataPoints] : k \in 0 .. MaxPoints}

\* handleRequest answers get_history: FetchHistory succeeded and the history
\* response is written on the connection
HandleGetHistory ==
    \E points \in PointLists :
        histRet' = [stage |-> "sent", points |-> points, type |-> "history",
                    data_points |-> [i \in 1 .. Len(points) |-> EncodePoint(points[i])],
                    got |-> <<>>, err |-> FALSE]

\* handleRequest answers get_history with an error: there is no collector or
\* FetchHistory failed
HandleGetHistoryFails ==
    histRet' = [stage |-> "sent", points |-> <<>>, type |-> "error",
                data_points |-> <<>>, got |-> <<>>, err |-> FALSE]

\* GetHistory takes the response from its channel and returns
GetHistoryReturns ==
    histRet' = [histRet EXCEPT
                  !.stage = "returned",
                  !.err = histRet.type = "error",
                  !.got = IF histRet.type = "error" THEN <<>>
                          ELSE [i \in 1 .. Len(histRet.data_points) |->
                                   DecodePoint(histRet.data_points[i])]]

\* the caller has read what GetHistory returned
HistoryTaken == histRet' = [stage |-> "none"]

NextHistory ==
    \/ histRet.stage = "none" /\ UNCHANGED nonHistVars /\ HandleGetHistory
    \/ histRet.stage = "none" /\ UNCHANGED nonHistVars /\ HandleGetHistoryFails
    \/ histRet.stage = "sent" /\ UNCHANGED nonHistVars /\ GetHistoryReturns
    \/ histRet.stage = "returned" /\ UNCHANGED nonHistVars /\ HistoryTaken

InitHistory == CoreIdle /\ NoDirectCalls

SpecHistory == InitHistory /\ [][NextHistory]_vars

-----------------------------------------------------------------------------
(* Properties of the ring buffer *)

HasBuffer(t) == targets[t] /= NoBuffer

\* the samples a targetBuffer holds, oldest first, read off its slots
Resident(tb, bs) ==
    [i \in 1 .. tb.count |-> tb.samples[(tb.head - tb.count + bs + i - 1) % bs]]

ResidentSlot(tb, bs, i) == (tb.head - tb.count + bs + i - 1) % bs

SuccessPositions(tb, bs) ==
    {i \in 1 .. tb.count : Resident(tb, bs)[i].latencyMs >= 0}

SetMin(S) == CHOOSE x \in S : \A y \in S : x <= y

MinOf(x, y) == IF x < y THEN x ELSE y

\* C1: whenever a buffer holds a non-loss sample, hasFirstSuccess is true and
\* firstSuccessIdx is the slot of the oldest non-loss sample it holds; when it
\* holds none, hasFirstSuccess is false.
C1_FirstSuccessIsOldestResident ==
    \A t \in Names :
        HasBuffer(t) =>
            LET tb == targets[t]
                succ == SuccessPositions(tb, bufferSize)
            IN  IF succ /= {}
                THEN /\ tb.hasFirstSuccess
                     /\ tb.firstSuccessIdx = ResidentSlot(tb, bufferSize, SetMin(succ))
                ELSE ~tb.hasFirstSuccess

IsEmptyStats(s) ==
    /\ s.SampleCount = 0
    /\ s.LossPct = RatInt(0)
    /\ s.LastMs = RatInt(0) /\ s.MinMs = RatInt(0) /\ s.MaxMs = RatInt(0)
    /\ s.AvgMs = RatInt(0) /\ s.MedianMs = RatInt(0) /\ s.P95Ms = RatInt(0)

NoResidentSuccess(t) ==
    ~HasBuffer(t) \/ SuccessPositions(targets[t], bufferSize) = {}

\* C2: GetStats returns empty Stats (sample_count 0, loss_pct 0, latency fields 0)
\* whenever the target's buffer holds no non-loss sample.
C2_NoSuccessMeansEmptyStats ==
    (ret.op = "GetStats" /\ NoResidentSuccess(ret.target)) => IsEmptyStats(ret.stats)

RECURSIVE SumOver(_, _)
SumOver(f, S) ==
    IF S = {} THEN 0
    ELSE LET x == CHOOSE y \in S : TRUE IN f[x] + SumOver(f, S \ {x})

\* the r-th smallest of the values f[i], i in S, counted with repetitions
KthSmallest(f, S, r) ==
    CHOOSE v \in {f[i] : i \in S} :
        /\ Cardinality({i \in S : f[i] < v}) < r
        /\ r <= Cardinality({i \in S : f[i] <= v})

RatEqual(x, p, q) == x.n * q = p * x.d

\* C3: for a target with a first success, GetStats counts the slots from
\* firstSuccessIdx up to head (exclusive, in ring order, losses included), reports
\* loss_pct = 100 * losses / sample_count over them, and takes min, max, avg and
\* median over the non-loss samples of that window only.
C3_StatsWindow ==
    (/\ ret.op = "GetStats"
     /\ HasBuffer(ret.target)
     /\ targets[ret.target].hasFirstSuccess)
    => LET tb == targets[ret.target]
           s == ret.stats
           n == ((tb.head - tb.firstSuccessIdx - 1 + bufferSize) % bufferSize) + 1
           lat == [i \in 1 .. n |->
                      tb.samples[(tb.firstSuccessIdx + i - 1) % bufferSize].latencyMs]
           good == {i \in 1 .. n : lat[i] >= 0}
           k == Cardinality(good)
       IN  /\ s.SampleCount = n
           /\ RatEqual(s.LossPct, 100 * (n - k), n)
           /\ IF k = 0
              THEN /\ s.MinMs = RatInt(0) /\ s.MaxMs = RatInt(0)
                   /\ s.AvgMs = RatInt(0) /\ s.MedianMs = RatInt(0)
              ELSE /\ s.MinMs = RatInt(KthSmallest(lat, good, 1))
                   /\ s.MaxMs = RatInt(KthSmallest(lat, good, k))
                   /\ RatEqual(s.AvgMs, SumOver(lat, good), k)
                   /\ IF k % 2 = 1
                      THEN s.MedianMs = RatInt(KthSmallest(lat, good, (k + 1) \div 2))
                      ELSE RatEqual(s.MedianMs,
                                    KthSmallest(lat, good, k \div 2)
                                      + KthSmallest(lat, good, k \div 2 + 1), 2)

\* GetStats on a wrapped buffer whose window runs over the end of the array and
\* holds a loss between two different latencies
C3_Witness ==
    /\ ret.op = "GetStats"
    /\ HasBuffer(ret.target)
    /\ targets[ret.target].hasFirstSuccess
    /\ targets[ret.target].full
    /\ targets[ret.target].head <= targets[ret.target].firstSuccessIdx
    /\ ret.stats.SampleCount >= 3
    /\ RatLess(RatInt(0), ret.stats.LossPct)
    /\ RatLess(ret.stats.MinMs, ret.stats.MaxMs)

\* C4: 0 <= head < C, 0 <= count <= C, count = min(writes, C), slot (head-1) mod C
\* holds the latest sample, and count slots from (head-count) mod C on are the last
\* count samples written, in the order they were written.
C4_RingOrder ==
    \A t \in Names :
        IF HasBuffer(t)
        THEN LET tb == targets[t]
                 w == written[t]
                 C == bufferSize
             IN  /\ 0 <= tb.head /\ tb.head < C
                 /\ 0 <= tb.count /\ tb.count <= C
                 /\ tb.count = MinOf(Len(w), C)
                 /\ Len(w) > 0
                 /\ tb.samples[(tb.head - 1 + C) % C] = w[Len(w)]
                 /\ \A i \in 1 .. tb.count :
                       tb.samples[(tb.head - tb.count + C + i - 1) % C]
                           = w[Len(w) - tb.count + i]
        ELSE written[t] = <<>>

\* a buffer of capacity >= 2 that has wrapped and been overwritten twice over
C4_Witness ==
    \E t \in Names :
        /\ HasBuffer(t)
        /\ bufferSize >= 2
        /\ Len(written[t]) > 2 * bufferSize
        /\ targets[t].head /= 0

\* C5: GetHistory(target, n) returns the latencies of the last min(n, count) samples
\* written, oldest first; n <= 0 or n > count returns all count samples; a target
\* never written to yields the empty sequence and gets no buffer.
C5_History ==
    ret.op = "GetHistory"
    => LET w == written[ret.target]
           count == MinOf(Len(w), bufferSize)
           k == IF ret.count <= 0 \/ ret.count > count THEN count ELSE ret.count
       IN  /\ ret.history = [i \in 1 .. k |-> w[Len(w) - k + i].latencyMs]
           /\ Len(w) = 0 => (ret.history = <<>> /\ ~HasBuffer(ret.target))

\* GetHistory of fewer samples than a wrapped buffer holds, read across the end of
\* the array
C5_Witness ==
    /\ ret.op = "GetHistory"
    /\ HasBuffer(ret.target)
    /\ Len(written[ret.target]) > bufferSize
    /\ ret.count >= 2
    /\ ret.count < targets[ret.target].count
    /\ targets[ret.target].head - ret.count < 0
    /\ targets[ret.target].head > 0

-----------------------------------------------------------------------------
(* Properties of the collector *)

SampleOf(r) == [timestamp |-> r.Timestamp, latencyMs |-> r.LatencyMs]

InSeq(x, seq) == \E i \in 1 .. Len(seq) : seq[i] = x

InFlight(g) == probes[g].pc \notin {"idle", "done"}

\* a goroutine inside runProbe can always take its next step, whatever the state
\* of the subscribers' channels
C6_NonBlocking ==
    \A g \in ProbeIds :
        /\ probes[g].pc = "memory" => ENABLED StoreMemory(g)
        /\ probes[g].pc = "archive" => ENABLED StoreArchive(g)
        /\ probes[g].pc = "broadcast" => ENABLED BroadcastLock(g)
        /\ probes[g].pc = "sending" =>
              /\ \A ch \in probes[g].todo : ENABLED BroadcastSend(g, ch)
              /\ probes[g].todo = {} => ENABLED BroadcastUnlock(g)

\* what one iteration of broadcast does to the channels and the subscriber set
C6_SendEffect ==
    \A g \in ProbeIds, ch \in Chans :
        (BroadcastSend(g, ch) /\ ~chans[ch].closed) =>
            /\ IF Len(chans[ch].buf) >= SubscriberBuffer
               THEN chans'[ch].buf = chans[ch].buf
               ELSE chans'[ch].buf = Append(chans[ch].buf, probes[g].result)
            /\ \A other \in Chans \ {ch} : chans'[other] = chans[other]
            /\ subscribers' = subscribers
            /\ targets' = targets /\ archive' = archive

\* C6: a broadcast never blocks: a subscriber whose buffer is full is skipped (its
\* queue unchanged, still subscribed), every other subscriber gets the result, and
\* no step of runProbe waits for a subscriber.
C6_LossyFanout == [](C6_NonBlocking) /\ [][C6_SendEffect]_vars

\* a broadcast that has gone through both subscribers: one was full and was
\* skipped, the other got the result
C6_Witness ==
    \E g \in ProbeIds, A \in Chans, B \in Chans :
        /\ probes[g].pc = "sending" /\ probes[g].todo = {}
        /\ A /= B /\ {A, B} \subseteq subscribers
        /\ Len(chans[A].buf) = SubscriberBuffer
        /\ ~InSeq(probes[g].result, chans[A].buf)
        /\ chans[B].buf /= <<>>
        /\ chans[B].buf[Len(chans[B].buf)] = probes[g].result

C7_Step ==
    /\ panic' = "none"
    /\ \A ch \in Chans : chans'[ch].closed => ch \notin subscribers'
    /\ \A ch \in Chans :
          (Unsubscribe(ch) /\ ch \in subscribers) =>
              (chans'[ch].closed /\ ch \notin subscribers')
    /\ \A ch \in Chans :
          (Unsubscribe(ch) /\ ch \notin subscribers) =>
              (chans' = chans /\ subscribers' = subscribers)

\* C7: Unsubscribe(ch) closes ch and removes it from the subscriber set; whatever
\* the interleaving of broadcasts, Subscribe, Unsubscribe (repeated, or of an unknown
\* channel) and Stop, nothing is sent on a closed channel and no channel is closed
\* twice (no such panic is raised).
C7_SafeUnsubscribe == [][C7_Step]_vars

\* a channel closed by Unsubscribe while a broadcast to the other subscriber is
\* under way
C7_Witness ==
    \E ch \in Chans, g \in ProbeIds :
        /\ chans[ch].made /\ chans[ch].closed /\ ch \notin subscribers
        /\ stop = "idle"
        /\ probes[g].pc = "sending"
        /\ probes[g].todo /= {}

C8_AllBroadcast ==
    \A t \in Names :
        /\ Len(written[t]) =
              Cardinality({g \in ProbeIds : g[2] = t /\ probes[g].pc \in
                              {"archive", "broadcast", "sending", "done"}})
        /\ Len(broadcasts[t]) =
              Cardinality({g \in ProbeIds : g[2] = t /\ probes[g].pc \in
                              {"sending", "done"}})

C8_Step ==
    /\ \A g \in ProbeIds, ch \in Chans :
          BroadcastSend(g, ch) =>
              LET r == probes[g].result
                  tb == targets[r.Target]
              IN  /\ HasBuffer(r.Target)
                  /\ tb.samples[(tb.head - 1 + bufferSize) % bufferSize] = SampleOf(r)
                  /\ (hasStorage /\ r.Target \notin FaultyArchives) =>
                        /\ archive[r.Target] /= <<>>
                        /\ archive[r.Target][Len(archive[r.Target])]
                              = [timestamp |-> r.Timestamp, latencyMs |-> r.LatencyMs,
                                 isLoss |-> ~r.Success]
    /\ \A g \in ProbeIds :
          (StoreArchive(g) /\ probes'[g].err) => probes'[g].pc = "broadcast"
    /\ C8_AllBroadcast'

NonDecreasing(seq, stamp(_)) ==
    \A i \in 1 .. Len(seq), j \in 1 .. Len(seq) :
        i < j => stamp(seq[i]) <= stamp(seq[j])

StampOfSample(x) == x.timestamp
StampOfResult(x) == x.Timestamp

\* C9: at most one round is in flight, at most one Execute per target is in flight,
\* and per target the samples written to the ring buffer and to the archive and the
\* results broadcast are in non-decreasing timestamp order.
C9_OneRoundInOrder ==
    /\ Cardinality({r \in 1 .. MaxRounds : \E t \in Names : InFlight(<<r, t>>)}) <= 1
    /\ \A t \in Names :
          /\ Cardinality({g \in ProbeIds : g[2] = t /\ probes[g].pc = "execute"}) <= 1
          /\ NonDecreasing(written[t], StampOfSample)
          /\ NonDecreasing(archive[t], StampOfSample)
          /\ NonDecreasing(broadcasts[t], StampOfResult)
          /\ \A ch \in Chans :
                \A i \in 1 .. Len(chans[ch].buf), j \in 1 .. Len(chans[ch].buf) :
                    (i < j /\ chans[ch].buf[i].Target = chans[ch].buf[j].Target)
                        => chans[ch].buf[i].Timestamp <= chans[ch].buf[j].Timestamp

\* a later round is in flight after an earlier one stored and broadcast its results
C9_Witness ==
    /\ rounds >= 2
    /\ \E t \in Names : InFlight(<<rounds, t>>)
    /\ Len(written["b"]) >= 2
    /\ Len(archive["b"]) >= 2
    /\ Len(broadcasts["b"]) >= 2
    /\ Len(written["a"]) >= 1

C10_Step ==
    stop' = "done" =>
        /\ ctxDone'
        /\ \A g \in ProbeIds : ~InFlight(g)'
        /\ driver' = "exited"
        /\ rounds' = rounds
        /\ stop = "wait" =>
              /\ subscribers' = {}
              /\ \A ch \in Chans : chans[ch].made => chans'[ch].closed

PositionIn(x, seq) == CHOOSE i \in 1 .. Len(seq) : seq[i] = x

\* C11: any two subscribers that both receive results r1 and r2 receive them in
\* the same relative order, also when r1 and r2 are results of different targets
\* probed in the same round.
C11_SameRelativeOrder ==
    \A A \in Chans, B \in Chans :
        \A i \in 1 .. Len(chans[A].received), j \in 1 .. Len(chans[A].received) :
            LET r1 == chans[A].received[i]
                r2 == chans[A].received[j]
            IN  (i < j /\ InSeq(r1, chans[B].received) /\ InSeq(r2, chans[B].received))
                    => PositionIn(r1, chans[B].received) < PositionIn(r2, chans[B].received)

-----------------------------------------------------------------------------
(* Properties of the IPC client *)

C12_State ==
    /\ \A k \in CallerNames :
          callers[k].outcome.result = "response" =>
              /\ callers[k].outcome.resp.ID = callers[k].id
              /\ callers[k].outcome.resp.Type \in ResponseTypes(callers[k].kind)
    /\ \A id \in RequestIds :
          /\ Len(respCh[id]) <= 1
          /\ \A i \in 1 .. Len(respCh[id]) :
                respCh[id][i].ID = id /\ respCh[id][i].Type /= "probe_result"
    /\ \A i \in 1 .. Len(resultCh) : resultCh[i].Type = "probe_result"

C12_Step ==
    /\ C12_State'
    /\ \A k \in CallerNames :
          ReceiveResponse(k) => callers[k].outcome.result = "none"
    /\ \A m \in inbox :
          (readLoop(m) /\ m.Type /= "probe_result" /\ m.ID \in pending
                /\ respCh[m.ID] = <<>>) =>
              /\ respCh'[m.ID] = <<m>>
              /\ \A id \in RequestIds \ {m.ID} : respCh'[id] = respCh[id]

\* C12: with several requests in flight on one connection and the responses read in
\* any order, a response goes to the slot of the request whose id it carries and to
\* no other: a caller receives at most one response, it carries the caller's id,
\* and it is never a pushed probe_result.
C12_Correlation == [][C12_Step]_vars

\* both helpers have taken their response while the other was still in its call,
\* and a pushed probe_result went to resultCh
C12_Witness ==
    /\ \A k \in CallerNames :
          callers[k].pc = "cleanup" /\ callers[k].outcome.result = "response"
    /\ callers["k2"].id < callers["k1"].id
    /\ resultCh /= <<>>

C13_AbsentAfterReturn ==
    \A k \in CallerNames : callers[k].pc = "idle" => callers[k].id \notin pending

C13_Step ==
    /\ \A k \in CallerNames :
          TimeoutFires(k) =>
              /\ callers[k].waited >= (IF callers[k].kind = "get_history" THEN 10 ELSE 5)
              /\ callers'[k].outcome.result = "timeout"
    /\ C13_AbsentAfterReturn'
    /\ \A id \in RequestIds :
          Len(respCh'[id]) > Len(respCh[id]) => id \in pending
    /\ \A m \in inbox :
          (readLoop(m) /\ m.Type /= "probe_result" /\ m.ID \notin pending) =>
              (respCh' = respCh /\ callers' = callers /\ pending' = pending)

\* C13: a helper that times out (after 5 s, 10 s for history) returns a timeout
\* error; after any return of a helper its id is not in the pending map; readLoop
\* puts a response into a slot only while its id is in the map, so a late response
\* is dropped and changes nothing for any caller.
C13_TimeoutCleanup == [][C13_Step]_vars

\* GetStats has timed out and returned, its late response has been read and
\* dropped, and GetHistory is still waiting
C13_Witness ==
    /\ callers["k1"].pc = "idle"
    /\ callers["k1"].outcome.result = "timeout"
    /\ callers["k1"].id \notin pending
    /\ respCh[callers["k1"].id] = <<>>
    /\ \A m \in inbox : m.ID /= callers["k1"].id
    /\ \A req \in outbox : req.id /= callers["k1"].id
    /\ callers["k2"].pc = "waiting"

-----------------------------------------------------------------------------
(* Properties of the IPC server *)

IsRead(e) == e.ev = "read"
IsReply(e) == e.ev = "write" /\ e.re /= "push"
IsPush(e) == e.ev = "write" /\ e.re = "push"
NotPush(e) == ~IsPush(e)

\* the lines read on a connection, and the replies encoded for it, in order
ReadsOn(n) == SelectSeq(events[n], IsRead)
RepliesOn(n) == SelectSeq(events[n], IsReply)

\* the response types the protocol prescribes for a request
Prescribed(type, withCollector) ==
    CASE type \in {"subscribe", "unsubscribe"} -> {"ok"}
      [] type \in {"get_targets", "get_stats", "get_history"} /\ ~withCollector -> {"error"}
      [] type = "get_targets" /\ withCollector -> {"targets"}
      [] type = "get_stats" /\ withCollector -> {"stats"}
      [] type = "get_history" /\ withCollector -> {"history", "error"}
      [] OTHER -> {}

WellFormed(line) ==
    line.valid /\ line.type \in {"subscribe", "unsubscribe", "get_targets", "get_stats",
                                 "get_history"}

\* C14: for every well-formed request read on a connection the server encodes
\* exactly one response on that connection, after reading it and before reading
\* the next line, with the request's id and the type prescribed for the request.
C14_OneResponsePerRequest ==
    \A n \in Conns :
        /\ Len(ReadsOn(n)) = Len(RepliesOn(n)) + (IF conns[n].handler = "reply" THEN 1 ELSE 0)
        /\ \A i \in 1 .. Len(SelectSeq(events[n], NotPush)) :
              IsRead(SelectSeq(events[n], NotPush)[i]) <=> i % 2 = 1
        /\ \A i \in 1 .. Len(RepliesOn(n)) :
              WellFormed(ReadsOn(n)[i].line) =>
                  /\ RepliesOn(n)[i].msg.ID = ReadsOn(n)[i].line.id
                  /\ RepliesOn(n)[i].msg.Type
                        \in Prescribed(ReadsOn(n)[i].line.type, server.collector)
                  /\ RepliesOn(n)[i].re = ReadsOn(n)[i].line.type

\* a get_history request answered with history on n2, subscribe and unsubscribe
\* answered with ok on n1
C14_Witness ==
    /\ Len(RepliesOn("n1")) = 2
    /\ RepliesOn("n1")[2].delivered
    /\ Len(RepliesOn("n2")) = 1
    /\ ReadsOn("n2")[1].line.type = "get_history"
    /\ ReadsOn("n2")[1].line.valid
    /\ RepliesOn("n2")[1].msg = [ID |-> 1, Type |-> "history"]
    /\ RepliesOn("n2")[1].delivered

\* C15: a probe_result is encoded for a connection only after a subscribe was read
\* on it and not after the ok acknowledging a later unsubscribe; it carries no id.
C15_PushOnlyWhileSubscribed ==
    \A n \in Conns :
        \A i \in 1 .. Len(events[n]) :
            IsPush(events[n][i]) =>
                /\ events[n][i].msg.ID = 0
                /\ \E j \in 1 .. i - 1 :
                      /\ IsRead(events[n][j])
                      /\ events[n][j].line.valid
                      /\ events[n][j].line.type = "subscribe"
                      /\ \A k \in j + 1 .. i - 1 :
                            ~(IsReply(events[n][k]) /\ events[n][k].re = "unsubscribe")

\* n1 subscribed, got a probe_result, unsubscribed and got its ok, while n2, which
\* never subscribed, got none
C15_Witness ==
    /\ Len(events["n1"]) = 5
    /\ IsPush(events["n1"][3])
    /\ events["n1"][3].delivered
    /\ IsReply(events["n1"][5])
    /\ events["n1"][5].re = "unsubscribe"
    /\ "n2" \in srvClients
    /\ forwarder.pc = "select"

\* a step the server can take by itself
ServerStep ==
    \/ AcceptFails
    \/ RegisterClient
    \/ \E n \in Conns : ScanLine(n)
    \/ \E n \in Conns : SendReply(n)
    \/ \E n \in Conns : HandlerExit(n)
    \/ ForwardTake
    \/ \E n \in Conns : ForwardTo(n)
    \/ ForwardDone
    \/ ForwarderExit
    \/ StopCloseClients
    \/ StopReturns

\* C16: once Stop has been called it returns: as long as it has not, the server
\* has a step to take that waits for no client.
C16_StopTerminates == srvStop \in {"closing", "waiting"} => ENABLED ServerStep

\* C17: a line that is not valid JSON is answered with an error carrying the id of
\* the line if it has one (the empty id otherwise), a request of unknown type with
\* an error carrying its id; the connection stays open and is read further.
C17_ErrorReplies ==
    \A n \in Conns :
        \A i \in 1 .. Len(RepliesOn(n)) :
            LET line == ReadsOn(n)[i].line
            IN  (~WellFormed(line)) =>
                    /\ RepliesOn(n)[i].msg = [ID |-> line.id, Type |-> "error"]
                    /\ (conns[n].closed => srvStop /= "idle")

-----------------------------------------------------------------------------
(* Properties of the probes *)

\* the median of a slice by counting, whatever the order of its elements: the
\* middle element by rank for an odd length, the integer mean of the two middle
\* ranks for an even one, 0 for the empty slice
MedianOf(rtts) ==
    LET n == Len(rtts)
    IN  IF n = 0 THEN 0
        ELSE IF n % 2 = 1 THEN KthSmallest(rtts, 1 .. n, (n + 1) \div 2)
        ELSE (KthSmallest(rtts, 1 .. n, n \div 2)
                + KthSmallest(rtts, 1 .. n, n \div 2 + 1)) \div 2

\* what NewBurstResult returned for sent = N and recv = M agrees with the loss
\* formula, the success flag and the -1 sentinel
BurstResultBasics ==
    LET N == probeRet.stats.PacketsSent
        M == probeRet.stats.PacketsRecv
        r == probeRet.out
    IN  /\ N > 0 => RatEqual(r.LossPct, 100 * (N - M), N)
        /\ N = 0 => r.LossPct = RatInt(100)
        /\ r.Success = (M > 0)
        /\ (r.LatencyMs = RatInt(-1)) <=> (M = 0)
        /\ M > 0 => ~RatLess(r.LatencyMs, RatInt(0))
        /\ ~RatLess(r.LossPct, RatInt(0))
        /\ ~RatLess(RatInt(100), r.LossPct)

\* C18: NewBurstResult with sent = N and recv = M (0 <= M <= N) yields
\* loss_pct = 100*(N-M)/N when N > 0 and 100 when N = 0, success = (M > 0),
\* latency_ms = -1 exactly when M = 0, and otherwise a latency_ms >= 0 that is
\* the median of the RTTs cut down to whole microseconds, in milliseconds;
\* loss_pct is within [0,100].
C18_BurstResult ==
    probeRet.op = "NewBurstResult" =>
        /\ BurstResultBasics
        /\ probeRet.stats.PacketsRecv > 0 =>
              RatEqual(probeRet.out.LatencyMs,
                       MedianOf(probeRet.stats.Rtts) \div 1000, 1000)

\* C18 as stated: the same, with latency_ms the median of the RTTs itself
\* (the median in nanoseconds is a million times latency_ms).
C18_ExactMedian ==
    probeRet.op = "NewBurstResult" =>
        /\ BurstResultBasics
        /\ probeRet.stats.PacketsRecv > 0 =>
              RatEqual(probeRet.out.LatencyMs,
                       MedianOf(probeRet.stats.Rtts), 1000000)

\* a burst that lost one packet of three and whose median is not a whole
\* number of microseconds
C18_Witness ==
    /\ probeRet.op = "NewBurstResult"
    /\ probeRet.stats.PacketsSent = 3
    /\ probeRet.stats.PacketsRecv = 2
    /\ probeRet.stats.Rtts = <<2000, 1500>>
    /\ probeRet.out.Success
    /\ probeRet.out.Latency = 1750
    /\ probeRet.out.LatencyMs = Rat(1, 1000)

\* C19: when ICMP Execute cannot construct the pinger or the ping run fails
\* unrecoverably, it returns a result with pings_sent equal to the configured
\* pings count, pings_recv = 0, success = false, latency_ms = -1, loss_pct = 100
\* and a non-empty error string.
C19_FailureResult ==
    (probeRet.op = "Execute" /\ probeRet.failed) =>
        /\ probeRet.out.PingsSent = icmpProbe.Pings
        /\ probeRet.out.PingsRecv = 0
        /\ ~probeRet.out.Success
        /\ probeRet.out.LatencyMs = RatInt(-1)
        /\ probeRet.out.LossPct = RatInt(100)
        /\ probeRet.out.Error /= ""

\* the two slices hold the same round-trip times the same number of times
SameMultiset(a, b) ==
    /\ Len(a) = Len(b)
    /\ \A v \in RttValues :
          Cardinality({i \in 1 .. Len(a) : a[i] = v})
              = Cardinality({i \in 1 .. Len(b) : b[i] = v})

\* C20: calculateMedian returns 0 for the empty slice, the middle element of
\* the ascending order for an odd length and the integer mean of the two middle
\* elements for an even one, the same for every order of the same round-trip
\* times, and leaves the caller's slice as it was.
C20_Median ==
    probeRet.op = "calculateMedian" =>
        /\ probeRet.out.value = MedianOf(probeRet.rtts)
        /\ probeRet.out.rtts = probeRet.rtts
        /\ \A other \in RttSeqs :
              SameMultiset(other, probeRet.rtts) =>
                  calculateMedian(other).value = probeRet.out.value

\* an unsorted slice of even length whose two middle elements have an odd sum
C20_Witness ==
    /\ probeRet.op = "calculateMedian"
    /\ probeRet.rtts = <<2501, 2000>>
    /\ probeRet.out.value = 2250
    /\ probeRet.out.rtts = <<2501, 2000>>

-----------------------------------------------------------------------------
(* Properties of the configuration *)

\* x lies in the interval [0,1]
InUnitInterval(x) == ~IsNaN(x) /\ ~RatLess(x, RatInt(0)) /\ ~RatLess(RatInt(1), x)

\* the configuration violates one of the rules
BreaksARule(c) ==
    \/ Len(c.Targets) = 0
    \/ \E i \in 1 .. Len(c.Targets) :
          \/ c.Targets[i].Name = ""
          \/ c.Targets[i].Host = ""
          \/ c.Targets[i].Probe \notin {"icmp", "tcp"}
          \/ c.Targets[i].Probe = "tcp" /\ c.Targets[i].Port = 0
          \/ c.Targets[i].Port \notin 0 .. 65535
    \/ c.Global.Interval <= 0
    \/ c.Global.Timeout <= 0
    \/ c.Global.Timeout >= c.Global.Interval
    \/ c.Global.Pings \notin 1 .. 100
    \/ ~InUnitInterval(c.Storage.XFF)
    \/ c.Storage.Aggregation \notin {"average", "min", "max", "last"}
    \/ c.Storage.Retention /= GoodRetention

\* C21: Config.Validate returns an error for an empty targets list, a target
\* with an empty name or host, a probe kind other than icmp and tcp, a TCP target
\* without port, a port outside 0..65535, interval <= 0, timeout <= 0,
\* timeout >= interval, pings outside [1,100], xff outside [0,1] and an
\* aggregation outside {average, min, max, last}, and no error for a
\* configuration that violates none of these and has a valid retention string.
C21_ValidateRejects ==
    cfgRet.op = "Validate" => (BreaksARule(cfgRet.c) <=> cfgRet.err /= NoError)

\* C22: a configuration in which two targets have the same name is rejected
\* by Config.Validate, so the collector of an accepted configuration has one
\* probe for each configured target.
C22_UniqueNames ==
    (cfgRet.op = "Validate" /\ cfgRet.err = NoError) =>
        /\ \A i, j \in 1 .. Len(cfgRet.c.Targets) :
              cfgRet.c.Targets[i].Name = cfgRet.c.Targets[j].Name => i = j
        /\ Cardinality(DOMAIN CollectorProbes(cfgRet.c.Targets))
              = Len(cfgRet.c.Targets)

\* the places of s where one archive ends and the next begins: before the
\* string, at each comma, and after the string
Cuts(s) == {0, Len(s) + 1} \cup {i \in 1 .. Len(s) : s[i] = ","}

\* the archive of s that begins after the cut a
EntryAfter(s, a) ==
    LET b == CHOOSE c \in Cuts(s) : c > a /\ \A e \in Cuts(s) : e > a => c <= e
    IN  SubSeq(s, a + 1, b - 1)

\* the archives of s begin after these cuts; the k-th begins after the k-th
EntryCuts(s) == Cuts(s) \ {Len(s) + 1}
PositionOf(s, a) == Cardinality({c \in EntryCuts(s) : c <= a})

\* s without the spaces at its two ends
Stripped(s) ==
    LET inked == {i \in 1 .. Len(s) : s[i] /= " "}
    IN  IF inked = {} THEN <<>>
        ELSE SubSeq(s, CHOOSE i \in inked : \A j \in inked : i <= j,
                       CHOOSE i \in inked : \A j \in inked : j <= i)

\* one digit or more, then one unit letter
IsDuration(s) ==
    \E n \in 1 .. Len(s) :
        /\ Len(s) = n + 1
        /\ \A i \in 1 .. n : s[i] \in {"0", "1", "2", "3", "4", "5", "6", "7", "8", "9"}
        /\ s[n + 1] \in {"s", "m", "h", "d", "w", "y"}

\* the archive, trimmed, is two durations with one colon between them
EntryAsStated(e) ==
    LET a == Stripped(e)
        colons == {i \in 1 .. Len(a) : a[i] = ":"}
    IN  /\ Cardinality(colons) = 1
        /\ \A i \in colons :
              IsDuration(SubSeq(a, 1, i - 1)) /\ IsDuration(SubSeq(a, i + 1, Len(a)))

\* the same, with spaces allowed around each of the two durations
EntryWithTrimmedParts(e) ==
    LET a == Stripped(e)
        colons == {i \in 1 .. Len(a) : a[i] = ":"}
    IN  /\ Cardinality(colons) = 1
        /\ \A i \in colons :
              /\ IsDuration(Stripped(SubSeq(a, 1, i - 1)))
              /\ IsDuration(Stripped(SubSeq(a, i + 1, Len(a))))

\* C23 as stated: validateRetention accepts a string exactly when it is not
\* empty and every comma-separated archive, trimmed, has exactly two
\* colon-separated parts of the form digits-unit; the error of a rejection names
\* the position, counted from 1, of the first offending archive.
C23_AcceptsAsStated ==
    cfgRet.op = "validateRetention" =>
        LET s == cfgRet.retention
            bad == {a \in EntryCuts(s) : ~EntryAsStated(EntryAfter(s, a))}
        IN  /\ cfgRet.err = NoError <=> (s /= <<>> /\ bad = {})
            /\ cfgRet.err /= NoError =>
                  \E a \in bad : /\ cfgRet.err.at = PositionOf(s, a)
                                 /\ \A b \in bad : a <= b

\* C23: validateRetention accepts a string exactly when it is not empty and
\* every comma-separated archive, trimmed, has exactly two colon-separated parts
\* that are of the form digits-unit once they are trimmed too; the error of a
\* rejected non-empty string names the position, counted from 1, of the first
\* offending archive, and the empty string is rejected as empty.
C23_Accepts ==
    cfgRet.op = "validateRetention" =>
        LET s == cfgRet.retention
            bad == {a \in EntryCuts(s) : ~EntryWithTrimmedParts(EntryAfter(s, a))}
        IN  /\ cfgRet.err = NoError <=> (s /= <<>> /\ bad = {})
            /\ s = <<>> => cfgRet.err.kind = "retention string cannot be empty"
            /\ (s /= <<>> /\ cfgRet.err /= NoError) =>
                  \E a \in bad : /\ cfgRet.err.at = PositionOf(s, a)
                                 /\ \A b \in bad : a <= b

\* "1s:1d,1s:1d:x" is rejected for its second archive
C23_Witness ==
    /\ cfgRet.op = "validateRetention"
    /\ cfgRet.retention = <<"1", "s", ":", "1", "d", ",", "1", "s", ":", "1", "d", ":", "x">>
    /\ cfgRet.err = Errorf("expected format 'resolution:duration'", 2)

-----------------------------------------------------------------------------
(* Properties of the archive code *)

\* the seconds a text of the form digits-unit stands for, with the units s, m,
\* h and d
UnitValue(ch) ==
    CASE ch = "s" -> 1 [] ch = "m" -> 60 [] ch = "h" -> 3600 [] ch = "d" -> 86400

IsParsable(t) == IsDuration(t) /\ t[Len(t)] \in {"s", "m", "h", "d"}

SecondsOf(t) == NumberOf(SubSeq(t, 1, Len(t) - 1)) * UnitValue(t[Len(t)])

MaxOf(x, y) == IF x < y THEN y ELSE x

\* the colons of an archive entry
ColonsOf(e) == {i \in 1 .. Len(e) : e[i] = ":"}

\* C24: parseRRAs(retention, S) returns one (steps, rows) pair per archive
\* entry, in order, with steps = max(1, R div S) and rows = max(1, D div R) for
\* an entry R:D, and returns an error for an empty string, for an entry without
\* exactly one colon and for a duration that cannot be parsed.
C24_ParseRRAs ==
    rrdRet.op = "parseRRAs" =>
        LET s == rrdRet.retentionStr
            S == rrdRet.baseStep
            out == rrdRet.out
            entries == {a \in EntryCuts(s) : Stripped(EntryAfter(s, a)) /= <<>>}
            Entry(a) == Stripped(EntryAfter(s, a))
            Resolution(a) ==
                Stripped(SubSeq(Entry(a), 1, (CHOOSE i \in ColonsOf(Entry(a)) : TRUE) - 1))
            Window(a) ==
                Stripped(SubSeq(Entry(a), (CHOOSE i \in ColonsOf(Entry(a)) : TRUE) + 1,
                                Len(Entry(a))))
            Regular(a) ==
                /\ Cardinality(ColonsOf(Entry(a))) = 1
                /\ IsParsable(Resolution(a))
                /\ IsParsable(Window(a))
            Rank(a) == Cardinality({b \in entries : b <= a})
        IN  /\ ~out.panic
            /\ s = <<>> => out.err /= NoError
            /\ (\E a \in entries : Cardinality(ColonsOf(Entry(a))) /= 1) =>
                  out.err /= NoError
            /\ (\E a \in entries :
                    /\ Cardinality(ColonsOf(Entry(a))) = 1
                    /\ \/ \A i \in 1 .. Len(Resolution(a)) : Resolution(a)[i] \notin Digits
                       \/ \A i \in 1 .. Len(Window(a)) : Window(a)[i] \notin Digits) =>
                  out.err /= NoError
            /\ (entries /= {} /\ \A a \in entries : Regular(a)) =>
                  /\ out.err = NoError
                  /\ Len(out.rras) = Cardinality(entries)
                  /\ \A a \in entries :
                        out.rras[Rank(a)] =
                            [steps |-> MaxOf(1, SecondsOf(Resolution(a)) \div S),
                             rows |-> MaxOf(1, SecondsOf(Window(a))
                                                 \div SecondsOf(Resolution(a)))]

\* C25: the stem getFilename makes is a fixed point of the transform, consists
\* only of characters in [a-z0-9_], and the file name ends with .rrd and is at
\* most 204 long.
C25_FilenameIdempotent ==
    rrdRet.op = "getFilename" =>
        LET stem == rrdRet.out.stem
            name == rrdRet.out.name
        IN  /\ getFilename(stem).stem = stem
            /\ \A i \in 1 .. Len(stem) : stem[i] \in {"a", "b", "u", "n", "m", "e", "d", "7", "_"}
            /\ Len(name) >= 4
            /\ SubSeq(name, Len(name) - 3, Len(name)) = <<".", "r", "r", "d">>
            /\ Len(name) <= 204

\* the resolutions of the archives of the storage, in seconds
ArchiveResolutions ==
    {rrdStorage.rras[i].steps * rrdStorage.step : i \in 1 .. Len(rrdStorage.rras)}

\* C26: the step Fetch asks for is S for a span of at most 24 h, one minute for
\* a span above 24 h and of at most 7 d, and one hour beyond, and so it is the
\* resolution of one of the archives of the storage.
C26_StepOfAnArchive ==
    rrdRet.op = "calculateStep" =>
        /\ rrdRet.duration <= 86400 => rrdRet.out = rrdStorage.step
        /\ (86400 < rrdRet.duration /\ rrdRet.duration <= 604800) => rrdRet.out = 60
        /\ rrdRet.duration > 604800 => rrdRet.out = 3600
        /\ rrdRet.out \in ArchiveResolutions

-----------------------------------------------------------------------------
(* Properties of percentile *)

\* x <= y
RatLeq(x, y) == ~RatLess(y, x)

\* C27: for a non-empty ascending list and p in [0, 100], percentile lies
\* between the two neighbours v[floor(idx)] and v[ceil(idx)] it interpolates,
\* idx = p/100 * (k-1), hence p = 0 gives the minimum, p = 100 the maximum, and
\* the result lies between v[0] and v[k-1].
C27_Percentile ==
    rrdRet.op = "percentile" =>
        LET v == rrdRet.sorted
            k == Len(v)
            idx == Rat(rrdRet.p * (k - 1), 100)
        IN  /\ RatLeq(v[RatFloor(idx) + 1], rrdRet.out)
            /\ RatLeq(rrdRet.out, v[RatCeil(idx) + 1])
            /\ rrdRet.p = 0 => rrdRet.out = v[1]
            /\ rrdRet.p = 100 => rrdRet.out = v[k]
            /\ RatLeq(v[1], rrdRet.out) /\ RatLeq(rrdRet.out, v[k])

-----------------------------------------------------------------------------
(* Properties of the WebSocket hub *)

\* the names of a target list
NamesOf(ts) == {ts[i] : i \in 1 .. Len(ts)}

\* C28: a probe_result for target T is queued for a client only if the client
\* has subscribed to T or to "all" and has not unsubscribed from T (or from
\* "all") since: a client that never subscribed gets none, and none for T
\* follows an unsubscribe for T.
C28_OnlySubscribed ==
    \A id \in WsIds :
        wsClients[id].conn /= "none" =>
            LET log == wsClients[id].log
                Covers(i, t) == t \in NamesOf(log[i].targets)
                                    \/ "all" \in NamesOf(log[i].targets)
            IN  \A j \in 1 .. Len(log) :
                    log[j].ev = "sent" =>
                        \E i \in 1 .. j - 1 :
                            /\ log[i].ev = "subscribe"
                            /\ Covers(i, log[j].targets[1])
                            /\ \A m \in i + 1 .. j - 1 :
                                  ~(log[m].ev = "unsubscribe"
                                      /\ Covers(m, log[j].targets[1]))

-----------------------------------------------------------------------------
(* Properties of the get_history hop *)

\* C29: on the line value is null exactly when the latency is NaN and loss is
\* null exactly when the loss is NaN, and what GetHistory returns has as many
\* datapoints as FetchHistory returned, each with the same NaN-ness of value
\* and loss and the same numbers where they are not NaN.
C29_HistoryRoundTrip ==
    /\ histRet.stage \in {"sent", "returned"} /\ histRet.type = "history" =>
          /\ Len(histRet.data_points) = Len(histRet.points)
          /\ \A i \in 1 .. Len(histRet.points) :
                /\ histRet.data_points[i].value.null <=> IsNaN(histRet.points[i].Value)
                /\ histRet.data_points[i].loss.null <=> IsNaN(histRet.points[i].Loss)
    /\ histRet.stage = "returned" /\ histRet.type = "history" =>
          /\ ~histRet.err
          /\ Len(histRet.got) = Len(histRet.points)
          /\ \A i \in 1 .. Len(histRet.points) :
                /\ histRet.got[i].Value = histRet.points[i].Value
                /\ histRet.got[i].Loss = histRet.points[i].Loss

\* a response with a lost sample (NaN latency, loss 1) and a sample with a
\* fractional latency has come back
C29_Witness ==
    /\ histRet.stage = "returned"
    /\ Len(histRet.got) = 2
    /\ IsNaN(histRet.got[1].Value) /\ histRet.got[1].Loss = RatInt(1)
    /\ histRet.got[2].Value = Rat(49, 4) /\ IsNaN(histRet.got[2].Loss)
    /\ histRet.data_points[2].value.text = <<"1", "2", ".", "2", "5">>

-----------------------------------------------------------------------------
(* Further properties of the ring buffer *)

\* C31: when every sample written to a target is a success, GetStats after the
\* n-th write reports sample_count = min(n, C) and loss_pct = 0, so that
\* sample_count does not decrease once the buffer has wrapped.
C31_SuccessOnlyCount ==
    (/\ ret.op = "GetStats"
     /\ written[ret.target] /= <<>>
     /\ \A i \in 1 .. Len(written[ret.target]) : written[ret.target][i].latencyMs >= 0)
    => /\ ret.stats.SampleCount = MinOf(Len(written[ret.target]), bufferSize)
       /\ ret.stats.LossPct = RatInt(0)

\* C32 as stated: after every Write, full is true exactly when count = C.
C32_FullIffCountIsCapacity ==
    \A t \in Names :
        HasBuffer(t) => (targets[t].full <=> targets[t].count = bufferSize)

\* C32: after every Write, full is true exactly when more than C samples have
\* been written: the write that brings count to C leaves it false, the next
\* one sets it, and it stays set.
C32_FullAfterWrap ==
    \A t \in Names :
        HasBuffer(t) =>
            /\ targets[t].full <=> Len(written[t]) > bufferSize
            /\ targets[t].full => targets[t].count = bufferSize

\* exactly C writes have been made: count has reached C and full is not set
C32_Witness ==
    \E t \in Names :
        /\ HasBuffer(t)
        /\ Len(written[t]) = bufferSize
        /\ targets[t].count = bufferSize
        /\ ~targets[t].full

-----------------------------------------------------------------------------
(* Further properties of the IPC server *)

\* broadcastResults sits in Encode on a subscribed connection whose client has
\* stopped reading; it holds s.clientsMu for reading
BlockedOn(n) ==
    /\ forwarder.pc = "forward"
    /\ forwarder.todo = {n}
    /\ ShouldPush(conns[n])
    /\ conns[n].stalled
    /\ ~conns[n].closed

\* C33: a subscribed connection whose client has stopped reading delays neither
\* the forwarding of results nor the registration of an accepted connection:
\* while broadcastResults is at such a connection it can finish that iteration,
\* and an accepted connection waiting to be registered can be registered once
\* the loop is over.
C33_StalledSubscriberDoesNotBlock ==
    \A n \in Conns :
        BlockedOn(n) =>
            /\ ENABLED ForwardTo(n)
            /\ acceptLoop.pc = "register" => ENABLED (ForwardTo(n) \/ RegisterClient)

-----------------------------------------------------------------------------
(* Further properties of the IPC client *)

\* a helper has returned an error to its caller
ReturnedError(k) ==
    /\ callers[k].pc = "idle"
    /\ callers[k].outcome.result \in {"timeout", "send error"}

C34_State ==
    /\ link.panic = "none"
    /\ link.resultClosed <= 1
    /\ link.ctxClosed <= 1
    /\ link.reader = "exited" <=> link.resultClosed = 1
    /\ \A k \in CallerNames :
          /\ callers[k].waited <= TimeoutOf(callers[k].kind)
          /\ (callers[k].id \in link.cut /\ callers[k].pc \in {"cleanup", "idle"}) =>
                callers[k].outcome.result \in {"timeout", "send error"}

C34_Step ==
    /\ Len(resultCh') > Len(resultCh) => link.resultClosed = 0
    /\ link.closed => (link'.conn = link.conn /\ link'.ctxClosed = link.ctxClosed
                         /\ link'.closed /\ link'.waiting <= link.waiting)

\* C34: once the connection is closed (by the peer, by a transport error or by
\* Close) readLoop exits; resultCh is closed exactly once and nothing is sent to it
\* afterwards, so the reader of Results() comes to an end; every request that was
\* pending at that moment returns an error to its caller within its timeout; a
\* further Close does nothing and every Close returns.
C34_ConnectionEnds ==
    /\ []C34_State
    /\ [][C34_Step]_vars
    /\ (link.conn = "closed") ~> (link.reader = "exited" /\ link.consumer = "done")
    /\ \A k \in CallerNames :
          (callers[k].id \in link.cut /\ callers[k].pc /= "idle")
              ~> (callers[k].id \in link.cut /\ ReturnedError(k))
    /\ (link.waiting > 0) ~> (link.returned = link.closeCalls)

\* the connection was lost while GetStats waited for its response and GetHistory
\* was writing its request; both have returned an error, Close was called twice
\* and returned twice, and the reader of Results() has come to an end after
\* taking a result
C34_Witness ==
    /\ link.cut = {callers["k1"].id, callers["k2"].id}
    /\ callers["k1"].id /= callers["k2"].id
    /\ callers["k1"].outcome.result = "timeout" /\ callers["k1"].pc = "idle"
    /\ callers["k2"].outcome.result = "send error" /\ callers["k2"].pc = "idle"
    /\ link.returned = 2
    /\ link.closed
    /\ link.consumer = "done"
    /\ pushes = 1 /\ resultCh = <<>>

-----------------------------------------------------------------------------
(* Further properties of the probes *)

\* C35: once the context is cancelled TCPProbe.Execute makes no further dial
\* attempt, so pings_sent is the number of iterations started before the
\* cancellation and not the configured pings count.
C35_NoDialAfterCancel ==
    probeRet.op = "TCPProbe.Execute" =>
        /\ \A j \in 1 .. Len(probeRet.dials) : ~probeRet.dials[j]
        /\ probeRet.out.PingsSent = probeRet.cancelAt

\* C36: an ICMP probe starts privileged; an Execute runs the burst at most
\* twice; the mode changes only from privileged to unprivileged and only when
\* the privileged run failed with operation-not-permitted, so any other failure
\* leaves it as it was; an unprivileged probe stays unprivileged.
C36_FallbackOnlyWhenNotPermitted ==
    /\ probeRet.op = "Execute" =>
          /\ probeRet.runs <= 2
          /\ ~probeRet.was => ~icmpProbe.privileged
          /\ icmpProbe.privileged /= probeRet.was =>
                probeRet.firstErr = "operation not permitted"

-----------------------------------------------------------------------------
(* Properties of the ring buffer under concurrent calls *)

RECURSIVE Replay(_, _)
\* the targetBuffer a sequence of Writes, made one after the other, leaves
Replay(samples, bs) ==
    IF samples = <<>> THEN NewTargetBuffer(bs)
    ELSE LET last == samples[Len(samples)]
         IN  TargetWrite(Replay(SubSeq(samples, 1, Len(samples) - 1), bs), bs,
                         last.timestamp, last.latencyMs)

\* the goroutines that have returned from Write
WritersDone == {w \in WriterNames : conc.writers[w].pc = "done"}

\* C37: concurrent first Writes for an unseen target make exactly one
\* targetBuffer; every sample of a Write that has returned is in the buffer of
\* the map, which is what the same Writes made one after the other leave, with
\* count = min(number of writes, C); what GetStats returns is the statistics
\* of the buffer after some completed Writes, never of a half-made one.
C37_ConcurrentFirstWrites ==
    /\ Len(conc.heap) <= 1
    /\ Len(conc.heap) = 1 <=> conc.mapped = 1
    /\ \A w \in WriterNames : conc.writers[w].pc \notin {"lookup", "insert"} =>
          conc.writers[w].tb = 1 /\ conc.mapped = 1
    /\ Len(written[Unseen]) = Cardinality(WritersDone)
    /\ \A w \in WritersDone :
          \E i \in 1 .. Len(written[Unseen]) : written[Unseen][i].timestamp = w
    /\ (HasBuffer(Unseen) /\ \A w \in WriterNames : conc.writers[w].pc /= "finish") =>
          /\ targets[Unseen] = Replay(written[Unseen], bufferSize)
          /\ targets[Unseen].count = MinOf(Len(written[Unseen]), bufferSize)
    /\ conc.obs.op = "GetStats" =>
          conc.obs.stats = calculateStats(Unseen, Replay(conc.obs.written, bufferSize),
                                          bufferSize)

\* all the goroutines have returned from Write, two of them had found no entry
\* and went for the map lock; GetStats ran between two of the Writes
C37_Witness ==
    /\ WritersDone = WriterNames
    /\ Len(conc.heap) = 1
    /\ conc.obs.op = "GetStats"
    /\ Len(conc.obs.written) = 1
    /\ conc.obs.stats.SampleCount = 1
    /\ targets[Unseen].count = MinOf(MaxWriters, bufferSize)

-----------------------------------------------------------------------------
(* Further properties of the archive code *)

\* C38: every retention string validateRetention accepts is parsed by parseRRAs
\* without an error and without a run-time fault, and every archive it yields
\* has steps >= 1 and rows >= 1.
C38_ValidatorAndParserAgree ==
    (rrdRet.op = "parseRRAs" /\ validateRetention(rrdRet.retentionStr) = NoError) =>
        /\ ~rrdRet.out.panic
        /\ rrdRet.out.err = NoError
        /\ Len(rrdRet.out.rras) >= 1
        /\ \A i \in 1 .. Len(rrdRet.out.rras) :
              rrdRet.out.rras[i].steps >= 1 /\ rrdRet.out.rras[i].rows >= 1

\* Config.Validate accepts a target name that is not empty
AcceptedName(targetName) == targetName /= <<>>

\* C39: two distinct target names that Config.Validate accepts have distinct
\* archive files under getFilename, whether they differ in letter case, in a
\* space against an underscore, in an unsafe character or otherwise.
C39_DistinctFiles ==
    (rrdRet.op = "getFilename" /\ AcceptedName(rrdRet.targetName)) =>
        \A other \in ShortNames :
            (AcceptedName(other) /\ other /= rrdRet.targetName) =>
                getFilename(other).name /= rrdRet.out.name

-----------------------------------------------------------------------------
(* Further properties of the WebSocket hub *)

\* C40: a client's send channel is closed at most once (Run closes only the
\* channels of the clients in h.clients and takes a client out as it closes its
\* channel) and nothing is sent on it once it is closed, whatever the order of
\* the drop of a full client, the unregistering, the shutdown and a sendError
\* of readPump.
C40_SendChannelSafe ==
    /\ ~hub.panic
    /\ \A id \in WsIds :
          (wsClients[id].conn /= "none" /\ wsClients[id].closed) => id \notin hub.clients

====
